---- MODULE Spec2Model ----
(***************************************************************************)
(* Model of the instruction sink of izer (src/izer/apbaccess.py: class APB *)
(* and its top-level variant APBTopLevel) and of the advisory checks of    *)
(* the backend (src/izer/backend/max7800x.py).                             *)
(*                                                                         *)
(* The sink object is modelled field by field.  Every method is an         *)
(* operator from a "world" record (the object's fields, the text the call  *)
(* has appended so far, and whether the run has stopped) to the world      *)
(* after the call, so that a method that calls another method is the       *)
(* composition of the two operators, in the order of the source.           *)
(***************************************************************************)
EXTENDS Integers, Sequences, FiniteSets, TLC

VARIABLES
    cfg,              \* run options and constructor arguments (never change)
    data,             \* APB.data: the byte-packer's scratch word
    num,              \* APB.num: bytes held in the scratch word
    data_offs,        \* APB.data_offs: offset expected for the next byte
    mem,              \* APB.mem: the overwrite tracker, one flag per word
    writes,           \* APB.writes
    reads,            \* APB.reads
    verify_listdata,  \* APB.verify_listdata: the deferred verify table
    memfile,          \* APB.memfile: the current output handle, or None
    data_mem,         \* APB.data_mem: preloaded data words (when present)
    output_data_mem,  \* APB.output_data_mem: expected data (when present)
    out,              \* the effects of the most recent call, in order
    halted,           \* the run was stopped by a fatal diagnostic or a crash
    last,             \* the most recent call and its arguments
    unsent,           \* bytes passed to write_byte and not yet seen in a word
    stream,           \* the bytes of the stream written so far (SpecStream)
    emitted,          \* the output followed as a whole: the words and
                      \* diagnostics of that stream, the lines of an image
    stream_buf,       \* backend: the streaming buffers of the layers so far
    foffs,            \* APBBlockLevel.foffs: the next line of the memory image
    net               \* backend: create_net's validation of the network

vars == <<cfg, data, num, data_offs, mem, writes, reads, verify_listdata,
          memfile, data_mem, output_data_mem, out, halted,
          last, unsent, stream, emitted, stream_buf, foffs, net>>

\* The record of a whole stream, kept only where a stream is followed.
history == <<stream, emitted>>

\* The state of the backend's pass over the layers.
backend == <<stream_buf, net>>

\* No network is being validated.
NoNet == [pc |-> "off"]

---------------------------------------------------------------------------
(* Bounds of the model.                                                    *)

MaxOffs == 4          \* byte offsets 0..MaxOffs are passed to the packer
MaxBus == 3           \* APB.writes and APB.reads are followed up to here
MaxStream == 8        \* bytes of one contiguous stream
MaxCount == 2         \* largest cap on the deferred values
MaxLayers == 3        \* layers the backend's pass goes through
MaxLines == 6         \* lines of one memory image
MaxFiles == 3         \* memory images opened in a run
NumLayers == 2        \* layers of a network that is validated

---------------------------------------------------------------------------
(* Values.                                                                 *)

\* Python's None, where the other values of the parameter are naturals.
None == 0 - 1

Offs == 0 .. MaxOffs
Words == 0 .. (MaxOffs \div 4)

\* Values passed as `val` to write_byte.  383 = 0x17f has a bit above the
\* low byte; after `& 0xff` every byte is at most 0x7f, so that a packed
\* word stays within the integers of the model checker (Python's integers
\* have no width, so nothing wraps in the source either).
ByteVals == {1, 383}

\* fifo arguments: None (direct write) or FIFO 0.
VAddrs == {4, 8, 12}
VVals == {5, 261}
Fifos == {None, 0}

RECURSIVE BitOr(_, _)
\* Python's a | b on naturals.
BitOr(a, b) ==
    IF a = 0 THEN b
    ELSE IF b = 0 THEN a
    ELSE (IF a % 2 = 1 \/ b % 2 = 1 THEN 1 ELSE 0) + 2 * BitOr(a \div 2, b \div 2)

RECURSIVE BitAnd(_, _)
\* Python's a & b on naturals.
BitAnd(a, b) ==
    IF a = 0 \/ b = 0 THEN 0
    ELSE (IF a % 2 = 1 /\ b % 2 = 1 THEN 1 ELSE 0) + 2 * BitAnd(a \div 2, b \div 2)

RECURSIVE Pow2(_)
Pow2(n) == IF n = 0 THEN 1 ELSE 2 * Pow2(n - 1)

\* Python's a << n.
Shl(a, n) == a * Pow2(n)

\* Python's a >> n on naturals.
Shr(a, n) == a \div Pow2(n)

\* Byte i (0 = least significant) of word v.
ByteOf(v, i) == Shr(v, 8 * i) % 256

---------------------------------------------------------------------------
(* The world a method runs in, and the effects it leaves.                  *)

World ==
    [data |-> data, num |-> num, data_offs |-> data_offs, mem |-> mem,
     writes |-> writes, reads |-> reads, verify_listdata |-> verify_listdata,
     memfile |-> memfile, data_mem |-> data_mem,
     output_data_mem |-> output_data_mem, foffs |-> foffs,
     out |-> <<>>, halted |-> halted]

\* One effect of a call: k is its kind, a an address or offset, v a value,
\* f a fifo or an output handle.
Ev(k, a, v, f) == [k |-> k, a |-> a, v |-> v, f |-> f]

Emit(w, e) == [w EXCEPT !.out = Append(@, e)]

\* eprint(msg, error=...): not part of src/.  A diagnostic with error set
\* stops the run (section 7 of the specification: Error, and Advisory
\* outside permissive mode, are fatal); with error clear it is a warning
\* and the caller goes on.
Eprint(w, msg, a, error) ==
    [w EXCEPT !.out = Append(@, Ev(msg, a, IF error THEN 1 ELSE 0, None)),
              !.halted = error]

\* An uncaught Python exception ends the run as well.
Raise(w, exc) ==
    [w EXCEPT !.out = Append(@, Ev(exc, None, 1, None)), !.halted = TRUE]

---------------------------------------------------------------------------
(* APB.__init__, lines 78-104: which optional memories the sink has.       *)
(* embedded_arm, state.compact_data and the fifo constructor argument are  *)
(* taken as off.                                                           *)

DataMemPresent ==
    ~cfg.embedded_code /\ cfg.rtl_preload /\ ~cfg.fast_fifo

OutputDataMemPresent ==
    ~cfg.embedded_code /\ cfg.result_output

---------------------------------------------------------------------------
(* APBTopLevel.write, lines 951-1006.  The addresses of the FIFO registers *)
(* come from the device table, which is not part of src/: a FIFO access is *)
(* recorded by its kind and the fifo index.                                *)

\* write that polls the FIFO whatever fifo_wait says.
TopWritePollsAlways(w, addr, val, no_verify, fifo, base, fifo_wait) ==
    LET addr1 == IF base = None THEN addr + cfg.apb_base ELSE addr
        mfile == IF cfg.apifile # None THEN cfg.apifile ELSE w.memfile
    IN  IF mfile = None THEN w
        ELSE IF fifo = None THEN
            LET w1 == [Emit(w, Ev("store", addr1, val, mfile))
                           EXCEPT !.writes = @ + 1]
            IN  IF cfg.verify_writes /\ ~no_verify
                THEN [Emit(w1, Ev("readback", addr1, val, mfile))
                          EXCEPT !.reads = @ + 1]
                ELSE w1
        ELSE IF w.memfile = None THEN Raise(w, "AttributeError")
        ELSE
            LET poll == IF cfg.fast_fifo THEN "fastfifo_poll" ELSE "fifo_poll"
                store == IF cfg.fast_fifo THEN "fastfifo_store" ELSE "fifo_store"
                w1 == Emit(w, Ev(poll, fifo, 0, w.memfile))
            IN  [Emit(w1, Ev(store, fifo, val, w.memfile))
                     EXCEPT !.writes = @ + 1]

\* APBTopLevel.write.
TopWrite(w, addr, val, no_verify, fifo, base, fifo_wait) ==
    LET addr1 == IF base = None THEN addr + cfg.apb_base ELSE addr
        mfile == IF cfg.apifile # None THEN cfg.apifile ELSE w.memfile
    IN  IF mfile = None THEN w
        ELSE IF fifo = None THEN
            LET w1 == [Emit(w, Ev("store", addr1, val, mfile))
                           EXCEPT !.writes = @ + 1]
            IN  IF cfg.verify_writes /\ ~no_verify
                THEN [Emit(w1, Ev("readback", addr1, val, mfile))
                          EXCEPT !.reads = @ + 1]
                ELSE w1
        ELSE IF w.memfile = None THEN Raise(w, "AttributeError")
        ELSE
            LET poll == IF cfg.fast_fifo THEN "fastfifo_poll" ELSE "fifo_poll"
                store == IF cfg.fast_fifo THEN "fastfifo_store" ELSE "fifo_store"
                w1 == IF fifo_wait
                      THEN Emit(w, Ev(poll, fifo, 0, w.memfile))
                      ELSE w
            IN  [Emit(w1, Ev(store, fifo, val, w.memfile))
                     EXCEPT !.writes = @ + 1]

(* APBTopLevel.write_data, lines 1008-1031.                                *)
TopWriteData(w, addr, val, fifo) ==
    IF DataMemPresent /\ fifo = None
    THEN [Emit(w, Ev("preload", addr, val, None))
              EXCEPT !.data_mem = Append(@, <<addr, val>>)]
    ELSE TopWrite(w, addr, val, FALSE, fifo, None, TRUE)

\* Every word the byte-packer hands to write_data is recorded first.
WriteData(w, addr, val, fifo) ==
    TopWriteData(Emit(w, Ev("write_data", addr, val, fifo)), addr, val, fifo)

---------------------------------------------------------------------------
(* The byte-packer, lines 510-562.                                         *)

\* check_overwrite with the word index taken as offs >> 3.
CheckOverwriteWrongWord(w, offs) ==
    LET w1 == Emit(w, Ev("check_overwrite", offs, 0, None))
    IN  IF w1.mem[Shr(offs, 3)]
        THEN Eprint(w1, "Overwriting location", offs, ~cfg.no_error_stop)
        ELSE w1

(* APB.check_overwrite, lines 510-518.                                     *)
CheckOverwrite(w, offs) ==
    LET w1 == Emit(w, Ev("check_overwrite", offs, 0, None))
    IN  IF w1.mem[Shr(offs, 2)]
        THEN Eprint(w1, "Overwriting location", offs, ~cfg.no_error_stop)
        ELSE w1

\* write_byte_flush that forgets to clear the scratch word.
WriteByteFlushKeepsData(w, offs, fifo) ==
    IF w.num > 0 THEN
        LET woffs == w.data_offs - w.num
            w1 == CheckOverwrite(w, woffs)
            w2 == WriteData(w1, woffs, w1.data, fifo)
        IN  IF w1.halted THEN w1
            ELSE IF w2.halted THEN w2
            ELSE [Emit(w2, Ev("mem", Shr(woffs, 2), 1, None))
                      EXCEPT !.mem[Shr(woffs, 2)] = TRUE,
                             !.num = 0,
                             !.data_offs = offs]
    ELSE [w EXCEPT !.data_offs = offs]

(* APB.write_byte_flush, lines 520-539.                                    *)
WriteByteFlush(w, offs, fifo) ==
    IF w.num > 0 THEN
        LET woffs == w.data_offs - w.num
            w1 == CheckOverwrite(w, woffs)
            w2 == WriteData(w1, woffs, w1.data, fifo)
        IN  IF w1.halted THEN w1
            ELSE IF w2.halted THEN w2
            ELSE [Emit(w2, Ev("mem", Shr(woffs, 2), 1, None))
                      EXCEPT !.mem[Shr(woffs, 2)] = TRUE,
                             !.num = 0,
                             !.data = 0,
                             !.data_offs = offs]
    ELSE [w EXCEPT !.data_offs = offs]

\* write_byte that packs the first byte into the high end of the word.
WriteByteBigEndian(w, offs, val, fifo) ==
    LET w1 == IF offs # w.data_offs THEN WriteByteFlush(w, offs, None) ELSE w
        w2 == [w1 EXCEPT !.data = BitOr(@, Shl(BitAnd(val, 255), 8 * (3 - w1.num))),
                         !.num = @ + 1,
                         !.data_offs = @ + 1]
    IN  IF w1.halted THEN w1
        ELSE IF w2.num = 4 THEN WriteByteFlush(w2, offs + 1, fifo)
        ELSE w2

\* write_byte that moves to a new offset without flushing what it holds.
WriteByteNoEarlyFlush(w, offs, val, fifo) ==
    LET w1 == IF offs # w.data_offs THEN [w EXCEPT !.data_offs = offs] ELSE w
        w2 == [w1 EXCEPT !.data = BitOr(@, Shl(BitAnd(val, 255), 8 * w1.num)),
                         !.num = @ + 1,
                         !.data_offs = @ + 1]
    IN  IF w2.num = 4 THEN WriteByteFlush(w2, offs + 1, fifo)
        ELSE w2

(* APB.write_byte, lines 541-562.                                          *)
WriteByte(w, offs, val, fifo) ==
    LET w1 == IF offs # w.data_offs THEN WriteByteFlush(w, offs, None) ELSE w
        w2 == [w1 EXCEPT !.data = BitOr(@, Shl(BitAnd(val, 255), 8 * w1.num)),
                         !.num = @ + 1,
                         !.data_offs = @ + 1]
    IN  IF w1.halted THEN w1
        ELSE IF w2.num = 4 THEN WriteByteFlush(w2, offs + 1, fifo)
        ELSE w2

---------------------------------------------------------------------------
(* Verification, lines 1033-1116 and 709-788.                              *)
(*                                                                         *)
(* A mask is a 32-bit quantity that reaches 0xffffffff, beyond the         *)
(* integers of the model checker: it is kept as its four bytes, most       *)
(* significant first, which compare as the numbers do.  "No mask" (None)   *)
(* is the empty tuple.  A mask string is kept as its hexadecimal digits    *)
(* (the text before them, " & 0x", is the same in all); the empty string   *)
(* is the empty tuple.  A comment is kept as a number.                     *)

NoMask == <<>>

\* 0xff, 0xffff, 0xffffff, 0xffffffff as n = 1, 2, 3, 4 bytes.
LowBytes(n) == [i \in 1 .. 4 |-> IF i > 4 - n THEN 255 ELSE 0]

\* mask << (8 * k), for a mask that fits 32 bits afterwards.
ShlBytes(m, k) == [i \in 1 .. 4 |-> IF i + k <= 4 THEN m[i + k] ELSE 0]

\* val & mask.
AndMask(val, m) ==
    BitAnd(ByteOf(val, 0), m[4]) + 256 * BitAnd(ByteOf(val, 1), m[3])
        + 65536 * BitAnd(ByteOf(val, 2), m[2])
        + 16777216 * BitAnd(ByteOf(val, 3), m[1])

\* f'{mask:0{width}x}': the hexadecimal digits of mask, zero-padded to
\* width.
HexDigits(m, width) ==
    LET d == [i \in 1 .. 8 |->
                 IF i % 2 = 1 THEN m[(i + 1) \div 2] \div 16
                 ELSE m[i \div 2] % 16]
        lead == CHOOSE k \in 0 .. 7 :
                    /\ \A i \in 1 .. k : d[i] = 0
                    /\ (k = 7 \/ d[k + 1] # 0)
        sig == 8 - lead
        n == IF width > sig THEN width ELSE sig
    IN  [i \in 1 .. n |-> IF i + 8 - n >= 1 THEN d[i + 8 - n] ELSE 0]

RECURSIVE SeqLt(_, _)
\* Python's a < b on strings and on tuples of numbers.
SeqLt(a, b) ==
    IF b = <<>> THEN FALSE
    ELSE IF a = <<>> THEN TRUE
    ELSE IF Head(a) # Head(b) THEN Head(a) < Head(b)
    ELSE SeqLt(Tail(a), Tail(b))

\* Python's a < b on the tuples of verify_listdata:
\* (mask, addr, mask_str, val, val_bytes, rv, comment).
EntryLt(a, b) ==
    IF a = b THEN FALSE
    ELSE LET i == CHOOSE k \in 1 .. 7 :
                      a[k] # b[k] /\ \A j \in 1 .. (k - 1) : a[j] = b[j]
         IN  IF i \in {1, 3} THEN SeqLt(a[i], b[i])
             ELSE IF i = 6 THEN b[i]
             ELSE a[i] < b[i]

RECURSIVE Insert(_, _)
Insert(e, s) ==
    IF s = <<>> THEN <<e>>
    ELSE IF EntryLt(e, Head(s)) THEN <<e>> \o s
    ELSE <<Head(s)>> \o Insert(e, Tail(s))

RECURSIVE Sorted(_)
\* sorted(self.verify_listdata), line 717.
Sorted(s) == IF s = <<>> THEN <<>> ELSE Insert(Head(s), Sorted(Tail(s)))

(* APBTopLevel.verify, lines 1033-1116.  The data-memory instance an       *)
(* address belongs to comes from the device table, which is not part of    *)
(* src/: expected data is kept by address.                                 *)
TopVerify(w, addr, val, mask, num_bytes, first_proc, comment, rv, api, isdata, use_list) ==
    IF OutputDataMemPresent /\ isdata THEN
        IF mask = NoMask /\ num_bytes \notin 1 .. 4
        THEN Raise(w, "NotImplementedError")
        ELSE IF mask = NoMask /\ first_proc + num_bytes > 4
        THEN Raise(w, "AssertionError")
        ELSE
            LET m0 == IF mask # NoMask THEN mask
                      ELSE IF num_bytes = 4 THEN NoMask
                      ELSE LowBytes(num_bytes)
                m1 == IF m0 # NoMask THEN ShlBytes(m0, first_proc) ELSE m0
            IN  [Emit(w, Ev("expected", addr, <<val, m1>>, None))
                     EXCEPT !.output_data_mem = Append(@, <<addr, val, m1>>)]
    ELSE
        LET addr1 == addr + cfg.apb_base
            m0 == IF mask # NoMask THEN mask
                  ELSE IF num_bytes = 4 THEN NoMask
                  ELSE LowBytes(num_bytes)
            masked == m0 # NoMask
            m1 == IF masked THEN ShlBytes(m0, first_proc) ELSE LowBytes(4)
            val_bytes == IF masked THEN num_bytes + first_proc ELSE num_bytes
            val1 == IF masked THEN AndMask(val, m1) ELSE val
            mask_str == IF masked THEN HexDigits(m1, 2 * val_bytes) ELSE <<>>
            mfile == IF api /\ cfg.apifile # None THEN cfg.apifile
                     ELSE w.memfile
        IN  IF w.memfile = None THEN w
            ELSE IF mask = NoMask /\ num_bytes \notin 1 .. 4
            THEN Raise(w, "NotImplementedError")
            ELSE IF mask = NoMask /\ first_proc + num_bytes > 4
            THEN Raise(w, "AssertionError")
            ELSE IF ~use_list
            THEN [Emit(w, Ev("check", addr1,
                             <<mask_str, val1, val_bytes, rv, comment>>, mfile))
                      EXCEPT !.reads = @ + 1]
            ELSE [w EXCEPT !.verify_listdata =
                               Append(@, <<m1, addr1, mask_str, val1, val_bytes,
                                           rv, comment>>),
                           !.reads = @ + 1]

RECURSIVE WriteChecks(_, _, _)
\* The loop of lines 723-727: one conditional statement per entry.
WriteChecks(w, d, rv) ==
    IF d = <<>> THEN w
    ELSE IF Head(d)[6] # rv THEN Raise(w, "AssertionError")
    ELSE IF w.memfile = None THEN Raise(w, "AttributeError")
    ELSE WriteChecks(
             Emit(w, Ev("check", Head(d)[2],
                        <<Head(d)[3], Head(d)[4], Head(d)[5], rv, Head(d)[7]>>,
                        w.memfile)),
             Tail(d), rv)

\* The loop with a block boundary that does not keep the values gathered
\* so far.
RECURSIVE CompactLoopDropsBlock(_, _, _, _)
CompactLoopDropsBlock(d, i, st, rv) ==
    IF i > Len(d) THEN st
    ELSE
        LET e == d[i]
            fresh == e[1] # st.output_mask \/ e[2] # st.next_addr
            st1 == IF fresh
                   THEN [st EXCEPT
                            !.val_array = <<>>,
                            !.output_mask = e[1],
                            !.output_addr = e[2],
                            !.next_addr = e[2]]
                   ELSE st
            st2 == [st1 EXCEPT !.val_array = Append(@, e[4]),
                               !.next_addr = @ + 4,
                               !.cumulative_length = @ + 1]
        IN  IF e[6] # rv THEN [st EXCEPT !.failed = TRUE]
            ELSE IF cfg.max_count # None /\ st2.cumulative_length > cfg.max_count
            THEN st2
            ELSE CompactLoopDropsBlock(d, i + 1, st2, rv)

\* The loop with a block boundary that looks at the address only.
RECURSIVE CompactLoopAnyMask(_, _, _, _)
CompactLoopAnyMask(d, i, st, rv) ==
    IF i > Len(d) THEN st
    ELSE
        LET e == d[i]
            fresh == e[2] # st.next_addr
            st1 == IF fresh
                   THEN [st EXCEPT
                            !.output_array =
                                IF Len(st.val_array) > 0
                                THEN @ \o <<st.output_addr, st.output_mask,
                                            Len(st.val_array)>> \o st.val_array
                                ELSE @,
                            !.val_array = <<>>,
                            !.output_mask = e[1],
                            !.output_addr = e[2],
                            !.next_addr = e[2]]
                   ELSE st
            st2 == [st1 EXCEPT !.val_array = Append(@, e[4]),
                               !.next_addr = @ + 4,
                               !.cumulative_length = @ + 1]
        IN  IF e[6] # rv THEN [st EXCEPT !.failed = TRUE]
            ELSE IF cfg.max_count # None /\ st2.cumulative_length > cfg.max_count
            THEN st2
            ELSE CompactLoopAnyMask(d, i + 1, st2, rv)

RECURSIVE CompactLoop(_, _, _, _)
\* The loop of lines 739-762 from entry i on; st holds its local variables.
CompactLoop(d, i, st, rv) ==
    IF i > Len(d) THEN st
    ELSE
        LET e == d[i]
            fresh == e[1] # st.output_mask \/ e[2] # st.next_addr
            st1 == IF fresh
                   THEN [st EXCEPT
                            !.output_array =
                                IF Len(st.val_array) > 0
                                THEN @ \o <<st.output_addr, st.output_mask,
                                            Len(st.val_array)>> \o st.val_array
                                ELSE @,
                            !.val_array = <<>>,
                            !.output_mask = e[1],
                            !.output_addr = e[2],
                            !.next_addr = e[2]]
                   ELSE st
            st2 == [st1 EXCEPT !.val_array = Append(@, e[4]),
                               !.next_addr = @ + 4,
                               !.cumulative_length = @ + 1]
        IN  IF e[6] # rv THEN [st EXCEPT !.failed = TRUE]
            ELSE IF cfg.max_count # None /\ st2.cumulative_length > cfg.max_count
            THEN st2
            ELSE CompactLoop(d, i + 1, st2, rv)

\* Lines 730-771: the compact table of the sorted entries d.
CompactTable(d, rv) ==
    LET st0 == [output_array |-> <<>>, val_array |-> <<>>,
                output_mask |-> LowBytes(0), output_addr |-> 0,
                next_addr |-> 0, cumulative_length |-> 0, failed |-> FALSE]
        st == CompactLoop(d, 1, st0, rv)
    IN  IF st.failed THEN [failed |-> TRUE, output_array |-> <<>>]
        ELSE [failed |-> FALSE,
              output_array |->
                  IF Len(st.val_array) > 0
                  THEN st.output_array
                           \o <<st.output_addr, st.output_mask, Len(st.val_array)>>
                           \o st.val_array \o <<0>>
                  ELSE st.output_array]

\* verify_unload_finalize without the reset of its last line.
VerifyUnloadFinalizeKeepsList(w) ==
    IF Len(w.verify_listdata) = 0 THEN w
    ELSE
        LET d == Sorted(w.verify_listdata)
            rv == d[1][6]
            t == CompactTable(d, rv)
            w1 == IF cfg.sampleoutput_header = None THEN WriteChecks(w, d, rv)
                  ELSE IF t.failed THEN Raise(w, "AssertionError")
                  ELSE LET w2 == Emit(w, Ev("c_define", None, t.output_array,
                                            cfg.sampleoutput_header))
                       IN  IF w2.memfile = None THEN Raise(w2, "AttributeError")
                           ELSE Emit(w2, Ev("check_loop", None, rv, w2.memfile))
        IN  w1

(* APB.verify_unload_finalize, lines 709-788.                              *)
VerifyUnloadFinalize(w) ==
    IF Len(w.verify_listdata) = 0 THEN w
    ELSE
        LET d == Sorted(w.verify_listdata)
            rv == d[1][6]
            t == CompactTable(d, rv)
            w1 == IF cfg.sampleoutput_header = None THEN WriteChecks(w, d, rv)
                  ELSE IF t.failed THEN Raise(w, "AssertionError")
                  ELSE LET w2 == Emit(w, Ev("c_define", None, t.output_array,
                                            cfg.sampleoutput_header))
                       IN  IF w2.memfile = None THEN Raise(w2, "AttributeError")
                           ELSE Emit(w2, Ev("check_loop", None, rv, w2.memfile))
        IN  IF w1.halted THEN w1 ELSE [w1 EXCEPT !.verify_listdata = <<>>]

(* APBTopLevel.wait, lines 1118-1138.                                      *)
TopWait(w, addr, mask, val) ==
    LET addr1 == addr + cfg.apb_base
        mfile == IF cfg.apifile # None THEN cfg.apifile ELSE w.memfile
    IN  IF mfile = None THEN w
        ELSE Emit(w, Ev("wait", addr1, <<mask, val>>, mfile))

\* set_memfile that also forgets which words were written.
SetMemfileResetsMem(w, f) ==
    [w EXCEPT !.memfile = f, !.mem = [x \in Words |-> FALSE]]

(* APB.set_memfile, lines 274-281.                                         *)
SetMemfile(w, f) == [w EXCEPT !.memfile = f]

---------------------------------------------------------------------------
(* APBBlockLevel, lines 806-915: the sink of block-level tests writes a    *)
(* memory image.  A line '@n v' is the effect ("line", n, v, handle).      *)

\* APBBlockLevel.write, lines 833-854.
BlockWrite(w, addr, val, base) ==
    LET addr1 == IF base = None THEN addr + cfg.apb_base ELSE addr
    IN  IF w.memfile = None THEN Raise(w, "AttributeError")
        ELSE [Emit(Emit(w, Ev("line", w.foffs, addr1, w.memfile)),
                   Ev("line", w.foffs + 1, val, w.memfile))
                  EXCEPT !.foffs = @ + 2]

\* APBBlockLevel.verify, lines 856-880.
BlockVerify(w, addr, val) ==
    LET addr1 == addr + cfg.apb_base
    IN  IF w.memfile = None THEN Raise(w, "AttributeError")
        ELSE [Emit(Emit(w, Ev("line", w.foffs, addr1, w.memfile)),
                   Ev("line", w.foffs + 1, val, w.memfile))
                  EXCEPT !.foffs = @ + 2]

\* wait in the two-line form of verify.
BlockWaitTwoLines(w, addr, mask, val) == BlockVerify(w, addr, val)

\* APBBlockLevel.wait, lines 882-895: the two assertions hold for the
\* addresses and values passed, and nothing else is done.
BlockWait(w, addr, mask, val) == w

\* set_memfile that goes on counting lines.
BlockSetMemfileKeepsFoffs(w, f) == SetMemfile(w, f)

\* APBBlockLevel.set_memfile, lines 897-905.
BlockSetMemfile(w, f) == [SetMemfile(w, f) EXCEPT !.foffs = 0]

---------------------------------------------------------------------------
(* APB.write_lreg, lines 381-401.  The address of a layer register comes   *)
(* from the device table (tc.lreg_addr), which is not part of src/: the    *)
(* caller passes the address.                                              *)
WriteLreg(w, addr, val, force_write) ==
    IF force_write \/ val # 0 \/ cfg.write_zero_regs
    THEN TopWrite(w, addr, val, FALSE, None, None, TRUE)
    ELSE w

---------------------------------------------------------------------------
(* The backend's checks of a streaming layer's rollover, max7800x.py lines *)
(* 2079-2162.  A layer l is given by the values the backend has computed   *)
(* for it: in_offset, out_offset, out_ignore, the rollover val, the        *)
(* data-memory map dmap of its processors and odmap of its output          *)
(* processors (tc.dev.datamem_map is not part of src/), whether it is the  *)
(* terminating layer, whether it ends the streaming chain, the bytes of    *)
(* its output as a write of osize * out_expand words and as an interval,   *)
(* instance_bytes (tc.dev.INSTANCE_WIDTH * tc.dev.P_SHARED * 4) and the    *)
(* address of its rollover register.  rd_ahead[ll] is false.  A streaming  *)
(* buffer is (start, end, dmap); a layer without one (None) has the empty  *)
(* tuple.                                                                  *)

NoBuf == <<>>

\* izer.utils.overlap: two closed intervals overlap.
Overlap(a, b) == a[1] <= b[2] /\ b[1] <= a[2]

\* Lines 2079-2113: rollover against the data memory.
RolloverCheck(w, ll, l) ==
    LET fatal == ~cfg.no_error_stop
        w1 == IF l.in_offset < l.out_offset - l.out_ignore THEN
                  IF l.in_offset + l.val * 4 >= l.out_offset - l.out_ignore
                  THEN Eprint(w, "Overlapping input and output", ll, fatal)
                  ELSE w
              ELSE
                  LET w2 == IF l.out_offset + l.val * 4 >= l.in_offset
                            THEN Eprint(w, "Overlapping input and output", ll,
                                        fatal)
                            ELSE w
                  IN  IF w2.halted THEN w2
                      ELSE IF l.terminating
                              /\ l.out_offset + l.out_words * 4 >= l.in_offset
                      THEN Eprint(w2, "Overlapping input and output", ll, fatal)
                      ELSE w2
    IN  IF w1.halted THEN w1
        ELSE IF l.in_offset + l.val * 4 >= l.instance_bytes
        THEN Eprint(w1, "Input plus rollover exceeds instance size", ll, fatal)
        ELSE w1

\* The loop of lines 2121-2132 with the severity taken from no_error_stop.
RECURSIVE StreamBufCheckNoErrorStop(_, _, _, _, _)
StreamBufCheckNoErrorStop(w, sb, ll, pl, dmap) ==
    IF pl >= ll \/ w.halted THEN w
    ELSE IF sb[pl + 1] # NoBuf /\ BitAnd(sb[pl + 1][3], dmap) # 0
            /\ Overlap(sb[ll + 1], sb[pl + 1])
    THEN StreamBufCheckNoErrorStop(
             Eprint(w, "Streaming buffer overlaps", ll, ~cfg.no_error_stop),
             sb, ll, pl + 1, dmap)
    ELSE StreamBufCheckNoErrorStop(w, sb, ll, pl + 1, dmap)

\* The loop of lines 2121-2132 without the test of the memory instances.
RECURSIVE StreamBufCheckAnyInstance(_, _, _, _, _)
StreamBufCheckAnyInstance(w, sb, ll, pl, dmap) ==
    IF pl >= ll \/ w.halted THEN w
    ELSE IF sb[pl + 1] # NoBuf /\ Overlap(sb[ll + 1], sb[pl + 1])
    THEN StreamBufCheckAnyInstance(
             Eprint(w, "Streaming buffer overlaps", ll, ~cfg.overwrite_ok),
             sb, ll, pl + 1, dmap)
    ELSE StreamBufCheckAnyInstance(w, sb, ll, pl + 1, dmap)

RECURSIVE StreamBufCheck(_, _, _, _, _)
\* The loop of lines 2121-2132 from layer pl on: the buffer of layer ll
\* against the buffers of the layers before it.
StreamBufCheck(w, sb, ll, pl, dmap) ==
    IF pl >= ll \/ w.halted THEN w
    ELSE IF sb[pl + 1] # NoBuf /\ BitAnd(sb[pl + 1][3], dmap) # 0
            /\ Overlap(sb[ll + 1], sb[pl + 1])
    THEN StreamBufCheck(
             Eprint(w, "Streaming buffer overlaps", ll, ~cfg.overwrite_ok),
             sb, ll, pl + 1, dmap)
    ELSE StreamBufCheck(w, sb, ll, pl + 1, dmap)

RECURSIVE OutputBufCheck(_, _, _, _, _)
\* The loop of lines 2145-2159 from layer pl on: the output of layer ll
\* against the buffers of the layers up to it.
OutputBufCheck(w, sb, ll, pl, l) ==
    IF pl > ll \/ w.halted THEN w
    ELSE IF sb[pl + 1] # NoBuf /\ BitAnd(sb[pl + 1][3], l.odmap) # 0
            /\ Overlap(<<l.out_offset, l.out_offset + l.out_bytes>>, sb[pl + 1])
    THEN OutputBufCheck(
             Eprint(w, "Output overlaps streaming buffer", ll, ~cfg.overwrite_ok),
             sb, ll, pl + 1, l)
    ELSE OutputBufCheck(w, sb, ll, pl + 1, l)

\* Lines 2079-2162 for layer ll, with sb the buffers of the layers before
\* it: the world and the buffers afterwards.
StreamLayer(w, sb, ll, l) ==
    LET w1 == RolloverCheck(w, ll, l)
        sb1 == Append(sb, <<l.in_offset, l.in_offset + l.val * 4, l.dmap>>)
        w2 == StreamBufCheck(w1, sb1, ll, 0, l.dmap)
        w3 == IF l.chain_end THEN OutputBufCheck(w2, sb1, ll, 0, l) ELSE w2
    IN  IF w1.halted THEN [w |-> w1, stream_buf |-> sb]
        ELSE IF w2.halted \/ w3.halted
        THEN [w |-> IF w2.halted THEN w2 ELSE w3, stream_buf |-> sb1]
        ELSE [w |-> WriteLreg(w3, l.lreg, l.val, FALSE), stream_buf |-> sb1]

---------------------------------------------------------------------------
(* Construction and the calls a run makes.                                 *)

\* The options of a plain top-level run: strict, one output file, nothing
\* preloaded, no read-back.  state.apb_base is not part of src/.
DefaultCfg ==
    [no_error_stop |-> FALSE, overwrite_ok |-> FALSE, apb_base |-> 16,
     apifile |-> None, verify_writes |-> FALSE, fast_fifo |-> FALSE,
     embedded_code |-> FALSE, rtl_preload |-> FALSE, result_output |-> FALSE,
     sampleoutput_header |-> None, max_count |-> None,
     write_zero_regs |-> FALSE]

(* APB.__init__, lines 78-84, with memfile the handle passed in.           *)
InitSink(c, f) ==
    /\ cfg = c
    /\ data = 0
    /\ num = 0
    /\ data_offs = 0
    /\ mem = [i \in Words |-> FALSE]
    /\ writes = 0
    /\ reads = 0
    /\ verify_listdata = <<>>
    /\ memfile = f
    /\ data_mem = <<>>
    /\ output_data_mem = <<>>
    /\ out = <<>>
    /\ halted = FALSE
    /\ last = [op |-> "__init__"]
    /\ foffs = 0

\* The result of a call becomes the state.
Commit(r) ==
    /\ data' = r.data
    /\ num' = r.num
    /\ data_offs' = r.data_offs
    /\ mem' = r.mem
    /\ writes' = r.writes
    /\ reads' = r.reads
    /\ verify_listdata' = r.verify_listdata
    /\ memfile' = r.memfile
    /\ data_mem' = r.data_mem
    /\ output_data_mem' = r.output_data_mem
    /\ out' = r.out
    /\ halted' = r.halted
    /\ foffs' = r.foffs
    /\ cfg' = cfg

\* A call is made while the run goes on; the counters and lists that only
\* grow are followed up to MaxBus.
Running ==
    /\ ~halted
    /\ writes < MaxBus
    /\ reads < MaxBus
    /\ Len(data_mem) < MaxBus
    /\ Len(output_data_mem) < MaxBus

\* The words of a call's effects, in order.
WordsOf(o) == SelectSeq(o, LAMBDA e : e.k = "write_data")

\* How many of the first bytes of queue u the word e carries: the longest
\* run of bytes of u, from its head, that lie at e.a, e.a + 1, ... with the
\* values of the word's bytes 0, 1, ...
Carried(u, e) ==
    LET fits(k) == \A i \in 1 .. k :
                       u[i][1] = e.a + i - 1 /\ ByteOf(e.v, i - 1) = u[i][2]
        cand == {k \in 0 .. (IF Len(u) < 4 THEN Len(u) ELSE 4) : fits(k)}
    IN  CHOOSE k \in cand : \A j \in cand : j <= k

RECURSIVE Remaining(_, _)
\* The queue u without the bytes carried by the words ws.
Remaining(u, ws) ==
    IF ws = <<>> THEN u
    ELSE Remaining(SubSeq(u, Carried(u, Head(ws)) + 1, Len(u)), Tail(ws))

DoWriteByte(offs, val, fifo) ==
    /\ Running
    /\ LET r == WriteByte(World, offs, val, fifo)
           u == Append(unsent, <<offs, BitAnd(val, 255)>>)
       IN  /\ Commit(r)
           /\ unsent' = Remaining(u, WordsOf(r.out))
    /\ last' = [op |-> "write_byte", offs |-> offs, val |-> val, fifo |-> fifo]

DoWriteByteFlush(offs, fifo) ==
    /\ Running
    /\ LET r == WriteByteFlush(World, offs, fifo)
       IN  /\ Commit(r)
           /\ unsent' = Remaining(unsent, WordsOf(r.out))
    /\ last' = [op |-> "write_byte_flush", offs |-> offs, fifo |-> fifo]

\* A call of verify.
DoVerify(addr, val, mask, num_bytes, first_proc, rv, api, isdata, use_list) ==
    /\ Running
    /\ Len(verify_listdata) < MaxBus
    /\ Commit(TopVerify(World, addr, val, mask, num_bytes, first_proc, 0, rv,
                        api, isdata, use_list))
    /\ last' = [op |-> "verify", use_list |-> use_list, isdata |-> isdata]
    /\ UNCHANGED unsent

\* A call of verify_unload_finalize.
DoVerifyUnloadFinalize ==
    /\ ~halted
    /\ Commit(VerifyUnloadFinalize(World))
    /\ last' = [op |-> "verify_unload_finalize", entries |-> verify_listdata]
    /\ UNCHANGED unsent

\* A call of write.
DoWrite(addr, val, no_verify, fifo) ==
    /\ Running
    /\ Commit(TopWrite(World, addr, val, no_verify, fifo, None, TRUE))
    /\ last' = [op |-> "write", fifo |-> fifo]
    /\ UNCHANGED unsent

\* A call of write_data.
DoWriteData(addr, val, fifo) ==
    /\ Running
    /\ Commit(TopWriteData(World, addr, val, fifo))
    /\ last' = [op |-> "write_data", fifo |-> fifo]
    /\ UNCHANGED unsent

\* A call of wait.
DoWait(addr, mask, val) ==
    /\ ~halted
    /\ Commit(TopWait(World, addr, mask, val))
    /\ last' = [op |-> "wait"]
    /\ UNCHANGED unsent

\* A call of set_memfile.
DoSetMemfile(f) ==
    /\ ~halted
    /\ Commit(SetMemfile(World, f))
    /\ last' = [op |-> "set_memfile"]
    /\ UNCHANGED unsent

\* The backend passes layer Len(stream_buf): a layer that does not stream
\* keeps no buffer.
DoLayer(streaming, l) ==
    /\ Running
    /\ Len(stream_buf) < MaxLayers
    /\ LET ll == Len(stream_buf)
           r == IF streaming THEN StreamLayer(World, stream_buf, ll, l)
                ELSE [w |-> World, stream_buf |-> Append(stream_buf, NoBuf)]
       IN  /\ Commit(r.w)
           /\ stream_buf' = r.stream_buf
           /\ net' = net
           /\ last' = [op |-> "layer", ll |-> ll, streaming |-> streaming,
                       l |-> l]
    /\ UNCHANGED unsent

\* A call of APBBlockLevel.write.
DoBlockWrite(addr, val, base) ==
    /\ ~halted
    /\ foffs < MaxLines
    /\ Commit(BlockWrite(World, addr, val, base))
    /\ last' = [op |-> "block_write", addr |-> addr, val |-> val, base |-> base]
    /\ UNCHANGED unsent

\* A call of APBBlockLevel.verify.
DoBlockVerify(addr, val) ==
    /\ ~halted
    /\ foffs < MaxLines
    /\ Commit(BlockVerify(World, addr, val))
    /\ last' = [op |-> "block_verify", addr |-> addr, val |-> val, base |-> None]
    /\ UNCHANGED unsent

\* A call of APBBlockLevel.wait.
DoBlockWait(addr, mask, val) ==
    /\ ~halted
    /\ foffs < MaxLines
    /\ Commit(BlockWait(World, addr, mask, val))
    /\ last' = [op |-> "block_wait", addr |-> addr, val |-> val, base |-> None]
    /\ UNCHANGED unsent

\* A call of APBBlockLevel.set_memfile with a newly opened file.
DoBlockSetMemfile ==
    /\ ~halted
    /\ memfile < MaxFiles
    /\ Commit(BlockSetMemfile(World, memfile + 1))
    /\ last' = [op |-> "block_set_memfile"]
    /\ UNCHANGED unsent

\* A call of write with every argument given.
DoWriteFifo(addr, val, no_verify, fifo, fifo_wait) ==
    /\ Running
    /\ Commit(TopWrite(World, addr, val, no_verify, fifo, None, fifo_wait))
    /\ last' = [op |-> "write", addr |-> addr, val |-> val,
                no_verify |-> no_verify, fifo |-> fifo, fifo_wait |-> fifo_wait]
    /\ UNCHANGED unsent

---------------------------------------------------------------------------
(* The byte-packer on its own: bytes and flushes in any order.             *)

PackCfgs ==
    {[DefaultCfg EXCEPT !.no_error_stop = e] : e \in BOOLEAN}

InitPack ==
    /\ \E c \in PackCfgs : InitSink(c, 1)
    /\ unsent = <<>>
    /\ stream = <<>>
    /\ emitted = <<>>
    /\ stream_buf = <<>>
    /\ net = NoNet

PackWriteByte ==
    /\ \E offs \in Offs, val \in ByteVals, fifo \in Fifos :
           DoWriteByte(offs, val, fifo)
    /\ UNCHANGED <<history, backend>>

PackWriteByteFlush ==
    /\ \E offs \in Offs, fifo \in Fifos : DoWriteByteFlush(offs, fifo)
    /\ UNCHANGED <<history, backend>>

NextPack == PackWriteByte \/ PackWriteByteFlush

SpecPack == InitPack /\ [][NextPack]_vars

---------------------------------------------------------------------------
(* One contiguous stream into a fresh sink: byte i goes to offset i.       *)

StreamWriteByte ==
    /\ Len(stream) < MaxStream
    /\ \E val \in ByteVals, fifo \in Fifos :
           /\ DoWriteByte(Len(stream), val, fifo)
           /\ stream' = Append(stream, val)
    /\ emitted' = emitted \o
           SelectSeq(out', LAMBDA e : e.k \in {"write_data", "Overwriting location"})
    /\ UNCHANGED backend

NextStream == StreamWriteByte

SpecStream == InitPack /\ [][NextStream]_vars

---------------------------------------------------------------------------
(* The byte-packer's flush rule.                                           *)

\* The positions in o of the effects of kind k.
At(o, k) == {i \in DOMAIN o : o[i].k = k}

\* C1: a write_byte(offs, val) call that returns hands a word to write_data
\* exactly when the byte it adds is the fourth one buffered, or offs is not
\* the expected offset while bytes are buffered; in the second case the
\* word is the partial word as buffered before the call (its bytes in the
\* low positions, zero above them), at the offset of its first byte, and the
\* new byte is the only one buffered afterwards.  The buffer then holds at
\* most 3 bytes.  (A fatal overwrite diagnostic ends the run inside the
\* call: see C4 and C6.)
C1_FlushRule ==
    [][(last'.op = "write_byte" /\ ~halted') =>
         LET ws == WordsOf(out')
             fourth == last'.offs = data_offs /\ num = 3
             jump == last'.offs # data_offs /\ num > 0
         IN  /\ Len(ws) = (IF fourth \/ jump THEN 1 ELSE 0)
             /\ jump =>
                   /\ ws[1].a = data_offs - num
                   /\ ws[1].v = data
                   /\ \A i \in 0 .. 3 :
                         ByteOf(ws[1].v, i) =
                             (IF i < num THEN unsent[i + 1][2] ELSE 0)
                   /\ num' = 1
                   /\ data' = BitAnd(last'.val, 255)
             /\ fourth => num' = 0
             /\ num' \in 0 .. 3]_vars

\* Witness of C1: a write_byte call at a non-contiguous offset has just
\* flushed a partial word of two or three bytes before buffering its byte.
C1_Witness ==
    /\ last.op = "write_byte"
    /\ ~halted
    /\ num = 1
    /\ Len(WordsOf(out)) = 1
    /\ WordsOf(out)[1].v >= 256

\* C3: a write_byte_flush call that returns with 1 to 3 bytes buffered hands
\* exactly one word to write_data, at the offset of the first buffered
\* byte, and leaves the buffer empty (num 0, data 0); with nothing buffered
\* it emits nothing.  After it no byte passed to write_byte is left out
\* of the words emitted, and every word emitted by any call carries only
\* bytes that were still waiting, each at its own offset, so that a byte
\* appears in exactly one word.
C3_TrailingFlush ==
    [][~halted' =>
         LET ws == WordsOf(out')
             u == IF last'.op = "write_byte"
                  THEN Append(unsent, <<last'.offs, BitAnd(last'.val, 255)>>)
                  ELSE unsent
         IN  /\ \A i \in DOMAIN ws :
                   /\ i = 1
                   /\ Carried(u, ws[i]) >= 1
                   /\ \A b \in Carried(u, ws[i]) .. 3 : ByteOf(ws[i].v, b) = 0
             /\ last'.op = "write_byte_flush" =>
                   /\ num \in 1 .. 3 =>
                         /\ Len(ws) = 1
                         /\ ws[1].a = unsent[1][1]
                         /\ Carried(u, ws[1]) = Len(unsent)
                   /\ num = 0 => ws = <<>>
                   /\ num' = 0
                   /\ data' = 0
                   /\ unsent' = <<>>]_vars

\* Witness of C3: a flush has just emitted a trailing partial word that
\* does not start at a word boundary.
C3_Witness ==
    /\ last.op = "write_byte_flush"
    /\ ~halted
    /\ unsent = <<>>
    /\ Len(WordsOf(out)) = 1
    /\ WordsOf(out)[1].a % 4 # 0
    /\ WordsOf(out)[1].v >= 256

\* C4: for every word flushed, check_overwrite is consulted for the word's
\* offset before the word is handed to write_data; the overwrite diagnostic
\* is raised exactly when the flag of word (offset >> 2) was set before the
\* call; and that flag is set only after the word has been emitted.
C4_CheckBeforeWrite ==
    [][/\ \A i \in At(out', "write_data") :
            \E j \in At(out', "check_overwrite") :
                j < i /\ out'[j].a = out'[i].a
       /\ \A j \in At(out', "check_overwrite") :
            /\ mem[Shr(out'[j].a, 2)] <=>
                   (j + 1 \in At(out', "Overwriting location")
                    /\ out'[j + 1].a = out'[j].a)
            /\ At(out', "Overwriting location") \subseteq {j + 1}
       /\ \A x \in Words :
            (mem'[x] /\ ~mem[x]) =>
                \E i \in At(out', "write_data"), j \in At(out', "mem") :
                    i < j /\ Shr(out'[i].a, 2) = x /\ out'[j].a = x
       /\ \A j \in At(out', "mem") :
            \E i \in At(out', "write_data") : i < j]_vars

\* Witness of C4: in permissive mode a flush found the flag of its word
\* set, raised the diagnostic, and then emitted the word.
C4_Witness ==
    /\ ~halted
    /\ \E d \in At(out, "Overwriting location"), i \in At(out, "write_data") :
           d < i /\ out[d].a = out[i].a

\* C2: from a fresh sink, bytes b0, b1, ... written at offsets 0, 1, ...
\* give, for each complete group k of 4 bytes, exactly one word, at offset
\* 4k, with value b[4k] | b[4k+1] << 8 | b[4k+2] << 16 | b[4k+3] << 24, in
\* the order of the groups, and no overwrite diagnostic.
C2_StreamRoundTrip ==
    LET b(i) == BitAnd(stream[i + 1], 255)
    IN  /\ ~halted
        /\ Len(emitted) = Len(stream) \div 4
        /\ \A k \in 0 .. (Len(emitted) - 1) :
              /\ emitted[k + 1].k = "write_data"
              /\ emitted[k + 1].a = 4 * k
              /\ emitted[k + 1].v =
                     b(4 * k) + 256 * b(4 * k + 1) + 65536 * b(4 * k + 2)
                         + 16777216 * b(4 * k + 3)

\* Witness of C2: two complete groups have been written, with different
\* bytes in the second.
C2_Witness ==
    /\ Len(stream) = 8
    /\ Len(emitted) = 2
    /\ stream[5] # stream[6]


---------------------------------------------------------------------------
(* Deferred verification: entries gathered by verify, compacted by         *)
(* verify_unload_finalize into the table of sampleoutput_header.           *)

TableCfgs ==
    {[DefaultCfg EXCEPT !.sampleoutput_header = 2, !.max_count = m] :
         m \in {None} \cup (1 .. MaxCount)}

InitTable ==
    /\ \E c \in TableCfgs : InitSink(c, 1)
    /\ unsent = <<>>
    /\ stream = <<>>
    /\ emitted = <<>>
    /\ stream_buf = <<>>
    /\ net = NoNet

TableVerify ==
    /\ \E addr \in VAddrs, val \in VVals, num_bytes \in {1, 4} :
           DoVerify(addr, val, NoMask, num_bytes, 0, TRUE, FALSE, FALSE, TRUE)
    /\ UNCHANGED <<history, backend>>

TableFinalize == DoVerifyUnloadFinalize /\ UNCHANGED <<history, backend>>

NextTable == TableVerify \/ TableFinalize

SpecTable == InitTable /\ [][NextTable]_vars

\* The table a call handed to c_define, or the empty tuple.
TableOf(o) ==
    IF At(o, "c_define") = {} THEN <<>>
    ELSE o[CHOOSE i \in At(o, "c_define") : TRUE].v

RECURSIVE Decode(_, _, _)
\* What the emitted loop (lines 777-786) reads from table t from position
\* p on: block after block until an address of 0, the checks
\* (mask, address, expected value) it makes, each with the number of its
\* block.
Decode(t, p, b) ==
    IF p + 2 > Len(t) THEN <<>>
    ELSE IF t[p] = 0 THEN <<>>
    ELSE IF p + 2 + t[p + 2] > Len(t) THEN <<>>
    ELSE [i \in 1 .. t[p + 2] |->
              [mask |-> t[p + 1], addr |-> t[p] + 4 * (i - 1),
               val |-> t[p + 2 + i], block |-> b]]
             \o Decode(t, p + 3 + t[p + 2], b + 1)

RECURSIVE TableEnd(_, _)
\* The position at which the emitted loop stops reading table t.
TableEnd(t, p) ==
    IF p > Len(t) THEN p
    ELSE IF t[p] = 0 THEN p
    ELSE IF p + 2 > Len(t) THEN Len(t) + 1
    ELSE TableEnd(t, p + 3 + t[p + 2])

\* How many times x occurs in sequence q.
Count(x, q) == Cardinality({i \in DOMAIN q : q[i] = x})

\* A call of verify_unload_finalize that returned after compacting a
\* non-empty list.
Compacted ==
    /\ last'.op = "verify_unload_finalize"
    /\ ~halted'
    /\ cfg.sampleoutput_header # None
    /\ verify_listdata # <<>>

\* C7: without a cap, the table decodes to exactly the deferred entries'
\* (mask, address, expected value), none lost and none added, in
\* (mask, address) order, whatever the order they were gathered in.
C7_Lossless ==
    [][(Compacted /\ cfg.max_count = None) =>
          LET D == Decode(TableOf(out'), 1, 1)
              P == [i \in DOMAIN verify_listdata |->
                       <<verify_listdata[i][1], verify_listdata[i][2],
                         verify_listdata[i][4]>>]
              Q == [i \in DOMAIN D |-> <<D[i].mask, D[i].addr, D[i].val>>]
          IN  /\ Len(Q) = Len(P)
              /\ \A i \in DOMAIN P : Count(P[i], Q) = Count(P[i], P)
              /\ \A i \in 1 .. (Len(D) - 1) :
                     \/ SeqLt(D[i].mask, D[i + 1].mask)
                     \/ D[i].mask = D[i + 1].mask /\ D[i].addr <= D[i + 1].addr
    ]_vars

\* Witness of C7: a table of two blocks has just been written from three
\* entries of one mask that were gathered out of address order.
C7_Witness ==
    /\ last.op = "verify_unload_finalize"
    /\ ~halted
    /\ cfg.max_count = None
    /\ Len(last.entries) = 3
    /\ last.entries[1][2] > last.entries[3][2]
    /\ last.entries[1][1] = last.entries[2][1]
    /\ last.entries[1][1] = last.entries[3][1]
    /\ LET D == Decode(TableOf(out), 1, 1)
       IN  /\ Len(D) = 3
           /\ D[1].block = D[2].block
           /\ D[2].block # D[3].block
           /\ D[1].val # D[2].val

\* C8: the table follows the sorted entries: entry i is the i-th value,
\* two consecutive entries share a block exactly when the second has the
\* same mask and the address 4 above the first, each block starts with
\* (address of its first entry, mask, number of its values), and the one
\* zero terminator is the last word.
C8_BlockStructure ==
    [][Compacted =>
          LET t == TableOf(out')
              D == Decode(t, 1, 1)
              S == Sorted(verify_listdata)
          IN  /\ Len(D) >= 1
              /\ Len(D) <= Len(S)
              /\ \A i \in DOMAIN D :
                     /\ D[i].mask = S[i][1]
                     /\ D[i].addr = S[i][2]
                     /\ D[i].val = S[i][4]
              /\ \A i \in 1 .. (Len(D) - 1) :
                     /\ D[i].block = D[i + 1].block
                            <=> (S[i + 1][1] = S[i][1] /\ S[i + 1][2] = S[i][2] + 4)
                     /\ \/ SeqLt(S[i][1], S[i + 1][1])
                        \/ S[i][1] = S[i + 1][1] /\ S[i][2] <= S[i + 1][2]
              /\ TableEnd(t, 1) = Len(t)
              /\ t[Len(t)] = 0
              /\ Len(t) = 3 * D[Len(D)].block + Len(D) + 1
    ]_vars

\* Witness of C8: a table has just been written in which a block ends
\* because the mask changes although the address goes on by 4.
C8_Witness ==
    /\ last.op = "verify_unload_finalize"
    /\ ~halted
    /\ LET D == Decode(TableOf(out), 1, 1)
       IN  /\ Len(D) >= 2
           /\ D[1].block # D[2].block
           /\ D[2].addr = D[1].addr + 4

\* C9: with a cap, the table holds at most max_count values.
C9_AtMostMaxCount ==
    [][(Compacted /\ cfg.max_count # None) =>
          Len(Decode(TableOf(out'), 1, 1)) <= cfg.max_count]_vars


---------------------------------------------------------------------------
(* The sink as a whole: every operation, in any order.                     *)

SinkCfgs ==
    {[DefaultCfg EXCEPT !.no_error_stop = TRUE, !.sampleoutput_header = h,
                        !.result_output = r] :
         h \in {None, 2}, r \in BOOLEAN}

Init ==
    /\ \E c \in SinkCfgs : InitSink(c, 1)
    /\ unsent = <<>>
    /\ stream = <<>>
    /\ emitted = <<>>
    /\ stream_buf = <<>>
    /\ net = NoNet

Write == (\E fifo \in Fifos : DoWrite(0, 1, FALSE, fifo)) /\ UNCHANGED <<history, backend>>

WriteDataCall ==
    (\E fifo \in Fifos : DoWriteData(0, 1, fifo)) /\ UNCHANGED <<history, backend>>

Verify ==
    /\ \E rv, isdata, use_list \in BOOLEAN :
           DoVerify(4, 5, NoMask, 4, 0, rv, FALSE, isdata, use_list)
    /\ UNCHANGED <<history, backend>>

Wait == DoWait(0, 1, 1) /\ UNCHANGED <<history, backend>>

WriteByteCall ==
    (\E offs \in {0, 4} : DoWriteByte(offs, 1, None)) /\ UNCHANGED <<history, backend>>

WriteByteFlushCall == DoWriteByteFlush(0, None) /\ UNCHANGED <<history, backend>>

SetMemfileCall ==
    (\E f \in {None, 1} : DoSetMemfile(f)) /\ UNCHANGED <<history, backend>>

Finalize == DoVerifyUnloadFinalize /\ UNCHANGED <<history, backend>>

Next ==
    \/ Write
    \/ WriteDataCall
    \/ Verify
    \/ Wait
    \/ WriteByteCall
    \/ WriteByteFlushCall
    \/ SetMemfileCall
    \/ Finalize

Spec == Init /\ [][Next]_vars

\* C5: on a new sink every flag of the tracker is clear, and no operation
\* of the sink clears a flag that is set.
C5_TrackerAppendOnly ==
    /\ \A x \in Words : ~mem[x]
    /\ [][\A x \in Words : mem[x] => mem'[x]]_vars

\* Witness of C5: both words are flagged, and calls of other operations,
\* the last a verify_unload_finalize of a non-empty list, have followed.
C5_Witness ==
    /\ \A x \in Words : mem[x]
    /\ last.op = "verify_unload_finalize"
    /\ last.entries # <<>>
    /\ memfile = None
    /\ writes = MaxBus


\* The statements of a call's effects that check expected values.
ChecksOf(o) ==
    SelectSeq(o, LAMBDA e : e.k \in {"check", "c_define", "check_loop"})

\* C10: a verify call that gets to an open handle either writes one check
\* statement and stores nothing, or stores exactly one entry at the end of
\* the list and writes nothing; no other operation than
\* verify_unload_finalize writes checks or takes entries off the list, and
\* verify_unload_finalize writes the checks of the stored entries and
\* leaves the list empty.
C10_ImmediateOrDeferred ==
    [][~halted' =>
          /\ (/\ last'.op = "verify"
              /\ memfile # None
              /\ ~(OutputDataMemPresent /\ last'.isdata))
                 => IF last'.use_list
                    THEN /\ out' = <<>>
                         /\ Len(verify_listdata') = Len(verify_listdata) + 1
                         /\ SubSeq(verify_listdata', 1, Len(verify_listdata))
                                = verify_listdata
                    ELSE /\ Len(out') = 1
                         /\ out'[1].k = "check"
                         /\ out'[1].f = memfile
                         /\ verify_listdata' = verify_listdata
          /\ last'.op \notin {"verify", "verify_unload_finalize"}
                 => ChecksOf(out') = <<>> /\ verify_listdata' = verify_listdata
          /\ last'.op = "verify"
                 => /\ Len(ChecksOf(out')) <= 1
                    /\ Len(verify_listdata') >= Len(verify_listdata)
                    /\ SubSeq(verify_listdata', 1, Len(verify_listdata))
                           = verify_listdata
          /\ last'.op = "verify_unload_finalize"
                 => /\ verify_listdata' = <<>>
                    /\ IF cfg.sampleoutput_header = None
                       THEN /\ Len(out') = Len(verify_listdata)
                            /\ \A e \in {verify_listdata[i] :
                                              i \in DOMAIN verify_listdata} :
                                   \E i \in DOMAIN out' :
                                       /\ out'[i].k = "check"
                                       /\ out'[i].a = e[2]
                                       /\ out'[i].v[2] = e[4]
                       ELSE verify_listdata # <<>>
                               => /\ Len(out') = 2
                                  /\ out'[1].k = "c_define"
                                  /\ out'[2].k = "check_loop"
                                  /\ Len(Decode(out'[1].v, 1, 1))
                                         = Len(verify_listdata)
    ]_vars

\* Witness of C10: an entry was stored while checks were also written
\* at once, and verify_unload_finalize has just written the stored entries
\* and emptied the list.
C10_Witness ==
    /\ last.op = "verify_unload_finalize"
    /\ ~halted
    /\ Len(last.entries) = 2
    /\ reads = MaxBus
    /\ verify_listdata = <<>>
    /\ ChecksOf(out) # <<>>


---------------------------------------------------------------------------
(* Advisories: the byte-packer writing over a word, and the backend's      *)
(* streaming layers, under every setting of the two options.               *)

AdvCfgs ==
    {[DefaultCfg EXCEPT !.no_error_stop = e, !.overwrite_ok = o] :
         e, o \in BOOLEAN}

InitAdv ==
    /\ \E c \in AdvCfgs : InitSink(c, 1)
    /\ unsent = <<>>
    /\ stream = <<>>
    /\ emitted = <<>>
    /\ stream_buf = <<>>
    /\ net = NoNet

AdvLayers ==
    [in_offset : {0, 16}, out_offset : {4, 64}, out_ignore : {0}, val : {2},
     dmap : {1, 2}, odmap : {1}, terminating : BOOLEAN, chain_end : BOOLEAN,
     out_words : {2}, out_bytes : {8}, instance_bytes : {4096}, lreg : {256}]

AdvWriteByte == DoWriteByte(0, 1, None) /\ UNCHANGED <<history, backend>>

AdvWriteByteFlush == DoWriteByteFlush(0, None) /\ UNCHANGED <<history, backend>>

AdvLayer ==
    /\ \E streaming \in BOOLEAN, l \in AdvLayers : DoLayer(streaming, l)
    /\ UNCHANGED history

NextAdv == AdvWriteByte \/ AdvWriteByteFlush \/ AdvLayer

SpecAdv == InitAdv /\ [][NextAdv]_vars


\* The advisories of the two places where overlap is detected.
StreamKinds == {"Streaming buffer overlaps", "Output overlaps streaming buffer"}
RolloverKinds ==
    {"Overlapping input and output", "Input plus rollover exceeds instance size"}

\* C6 as stated: the advisories for an overwritten address and for an
\* overlapping streaming buffer are fatal under the default options, and
\* with stop-on-error disabled they are warnings and the run goes on.
C6_PermissiveDowngrades ==
    \A i \in DOMAIN out :
        out[i].k \in {"Overwriting location"} \cup StreamKinds =>
            /\ (~cfg.no_error_stop /\ ~cfg.overwrite_ok) => out[i].v = 1
            /\ cfg.no_error_stop => (out[i].v = 0 /\ ~halted)

\* C6, amended: the advisory for an overwritten address, like those of the
\* rollover against the data memory, is fatal exactly when stop-on-error
\* is enabled; the advisories for an overlapping streaming buffer are
\* fatal exactly when the run does not tolerate overwrite, whatever
\* stop-on-error says; the run stops exactly at a fatal diagnostic, and
\* after a warning the word is written and the layer's buffer and rollover
\* register are set as specified.
C6_SeverityByOption ==
    /\ \A i \in DOMAIN out :
           /\ out[i].k \in {"Overwriting location"} \cup RolloverKinds
                  => (out[i].v = 1 <=> ~cfg.no_error_stop)
           /\ out[i].k \in StreamKinds
                  => (out[i].v = 1 <=> ~cfg.overwrite_ok)
           /\ (out[i].k = "Overwriting location" /\ ~halted)
                  => \E j \in At(out, "write_data") :
                         j > i /\ out[j].a = out[i].a
    /\ halted <=> (out # <<>> /\ out[Len(out)].k \notin {"store", "mem"}
                      /\ out[Len(out)].v = 1)
    /\ (last.op = "layer" /\ last.streaming /\ ~halted)
           => /\ stream_buf[last.ll + 1]
                    = <<last.l.in_offset, last.l.in_offset + 4 * last.l.val,
                        last.l.dmap>>
              /\ out[Len(out)] = Ev("store", last.l.lreg + cfg.apb_base,
                                    last.l.val, memfile)

\* Witness of C6: with stop-on-error enabled and overwrite tolerated, a
\* layer's streaming buffer overlapped an earlier one, and the layer's
\* rollover register has been written after the warning.
C6_Witness ==
    /\ ~cfg.no_error_stop
    /\ cfg.overwrite_ok
    /\ ~halted
    /\ last.op = "layer"
    /\ \E i \in At(out, "Streaming buffer overlaps") : out[i].v = 0
    /\ At(out, "store") # {}


---------------------------------------------------------------------------
(* The block-level sink: a memory image per file, each file opened anew    *)
(* for set_memfile; emitted is the image of the current file.              *)

InitBlock ==
    /\ InitSink(DefaultCfg, 1)
    /\ unsent = <<>>
    /\ stream = <<>>
    /\ emitted = <<>>
    /\ stream_buf = <<>>
    /\ net = NoNet

BlockWriteCall ==
    /\ \E addr \in {0, 4}, val \in {1, 2}, base \in {None, 0} :
           DoBlockWrite(addr, val, base)
    /\ emitted' = emitted \o out'
    /\ UNCHANGED <<stream, backend>>

BlockVerifyCall ==
    /\ \E addr \in {0, 4}, val \in {1, 2} : DoBlockVerify(addr, val)
    /\ emitted' = emitted \o out'
    /\ UNCHANGED <<stream, backend>>

BlockWaitCall ==
    /\ \E addr \in {0, 4}, val \in {1, 2} : DoBlockWait(addr, 1, val)
    /\ emitted' = emitted \o out'
    /\ UNCHANGED <<stream, backend>>

BlockSetMemfileCall ==
    /\ DoBlockSetMemfile
    /\ emitted' = <<>>
    /\ UNCHANGED <<stream, backend>>

NextBlock ==
    \/ BlockWriteCall
    \/ BlockVerifyCall
    \/ BlockWaitCall
    \/ BlockSetMemfileCall

SpecBlock == InitBlock /\ [][NextBlock]_vars

\* C11: each block-level write and verify appends the two lines
\* '@n address' and '@n+1 value' with n the line offset, which is 0 after
\* construction and after set_memfile and goes up by 2 with each of them;
\* line i of a file has offset i, so the offsets of a file are contiguous
\* and none repeats.
C11_TwoLinesPerOperation ==
    /\ foffs = 0
    /\ [][
          /\ (last'.op \in {"block_write", "block_verify"})
                 => (/\ Len(out') = 2
                     /\ out'[1] = Ev("line", foffs,
                                     IF last'.base = None
                                     THEN last'.addr + cfg.apb_base
                                     ELSE last'.addr, memfile)
                     /\ out'[2] = Ev("line", foffs + 1, last'.val, memfile)
                     /\ foffs' = foffs + 2)
          /\ (last'.op = "block_set_memfile") => (foffs' = 0)
          /\ Len(emitted') = foffs'
          /\ \A i \in DOMAIN emitted' :
                 emitted'[i].a = i - 1 /\ emitted'[i].f = memfile'
       ]_vars

\* Witness of C11: the second file holds the lines of a write and of a
\* verify, after a first file of two lines.
C11_Witness ==
    /\ memfile = 2
    /\ last.op = "block_verify"
    /\ Len(emitted) = 4
    /\ emitted[1].v = cfg.apb_base + 4
    /\ emitted[3].a = 2

\* C12 as stated: a block-level wait appends two lines and moves the line
\* offset on by 2, as write and verify do.
C12_WaitTwoLines ==
    [][last'.op = "block_wait" => (Len(out') = 2 /\ foffs' = foffs + 2)]_vars

\* C12, amended: a block-level wait appends nothing to the memory image
\* and leaves the line offset where it was.
C12_WaitWritesNothing ==
    [][last'.op = "block_wait"
           => (out' = <<>> /\ foffs' = foffs /\ emitted' = emitted
                  /\ memfile' = memfile)]_vars

\* Witness of C12: a wait has been called after a write, and the image
\* still ends with the two lines of the write.
C12_Witness ==
    /\ last.op = "block_wait"
    /\ foffs = 2
    /\ Len(emitted) = 2
    /\ out = <<>>


---------------------------------------------------------------------------
(* Writes of the top-level sink, direct and through a FIFO, with and       *)
(* without read-back and in both FIFO modes.                               *)

FifoCfgs ==
    {[DefaultCfg EXCEPT !.verify_writes = v, !.fast_fifo = q] :
         v, q \in BOOLEAN}

InitFifo ==
    /\ \E c \in FifoCfgs : InitSink(c, 1)
    /\ unsent = <<>>
    /\ stream = <<>>
    /\ emitted = <<>>
    /\ stream_buf = <<>>
    /\ net = NoNet

FifoWrite ==
    /\ \E addr \in {0, 4}, val \in {1, 2}, no_verify \in BOOLEAN,
             fifo \in {None, 0, 1}, fifo_wait \in BOOLEAN :
           DoWriteFifo(addr, val, no_verify, fifo, fifo_wait)
    /\ UNCHANGED <<history, backend>>

NextFifo == FifoWrite

SpecFifo == InitFifo /\ [][NextFifo]_vars

\* C13: a write with a FIFO target writes the poll of the FIFO status and
\* then the FIFO data register when fifo_wait is true, the FIFO data
\* register alone when it is false, and never a direct-address store or a
\* read-back check.
C13_FifoPollBeforeWrite ==
    [][(last'.op = "write" /\ last'.fifo # None /\ ~halted') =>
          LET poll == Ev(IF cfg.fast_fifo THEN "fastfifo_poll" ELSE "fifo_poll",
                         last'.fifo, 0, memfile)
              store == Ev(IF cfg.fast_fifo THEN "fastfifo_store"
                          ELSE "fifo_store", last'.fifo, last'.val, memfile)
          IN  /\ out' = IF last'.fifo_wait THEN <<poll, store>> ELSE <<store>>
              /\ At(out', "store") = {}
              /\ At(out', "readback") = {}
              /\ reads' = reads
              /\ writes' = writes + 1
    ]_vars

\* Witness of C13: with read-back enabled and not suppressed, a write to
\* FIFO 1 has polled and then written, after a direct write that was read
\* back.
C13_Witness ==
    /\ last.op = "write"
    /\ last.fifo = 1
    /\ last.fifo_wait
    /\ ~last.no_verify
    /\ cfg.verify_writes
    /\ reads = 1
    /\ Len(out) = 2


---------------------------------------------------------------------------
(* The streaming buffers of the layers: intervals of 16 bytes at 0x00,     *)
(* 0x08 and 0x20 on the memory instances A (1), B (2) or both, with the    *)
(* output far away.                                                        *)

BufCfgs == {[DefaultCfg EXCEPT !.overwrite_ok = o] : o \in BOOLEAN}

InitBuf ==
    /\ \E c \in BufCfgs : InitSink(c, 1)
    /\ unsent = <<>>
    /\ stream = <<>>
    /\ emitted = <<>>
    /\ stream_buf = <<>>
    /\ net = NoNet

BufLayers ==
    [in_offset : {0, 8, 32}, out_offset : {1024}, out_ignore : {0}, val : {4},
     dmap : {1, 2, 3}, odmap : {1}, terminating : {FALSE}, chain_end : {FALSE},
     out_words : {2}, out_bytes : {8}, instance_bytes : {4096}, lreg : {256}]

BufLayer ==
    /\ \E streaming \in BOOLEAN, l \in BufLayers : DoLayer(streaming, l)
    /\ UNCHANGED history

NextBuf == BufLayer

SpecBuf == InitBuf /\ [][NextBuf]_vars

\* The layers before layer ll whose buffer shares a memory instance with
\* the interval (lo, hi, dmap) and overlaps it as a closed interval.
Clashes(sb, ll, lo, hi, dmap) ==
    {pl \in 0 .. (ll - 1) :
        /\ sb[pl + 1] # NoBuf
        /\ BitAnd(sb[pl + 1][3], dmap) # 0
        /\ sb[pl + 1][1] <= hi
        /\ lo <= sb[pl + 1][2]}

---------------------------------------------------------------------------
(* Backend.create_net, max7800x.py lines 150-794: the validation of the    *)
(* network, before anything is generated.  net is a record: dev the        *)
(* device table tc.dev (not part of src/, an input), opt the run options   *)
(* as given, state the per-layer lists of the configuration that the       *)
(* caller shares with create_net (operator, kernel_size, padding,          *)
(* dilation, kernel, processor_map, ...: line 56-108 bind the lists of     *)
(* state, they are not copies), hw_padding and hw the lists create_net     *)
(* makes for the hardware, given the layers as they were passed in, and    *)
(* the values create_net computes on the way.  A processor map is the set  *)
(* of the bits set in it, a kernel the rows of one channel's weights.      *)
(* Layer ll of the source is element ll + 1 of the lists.  Taken as        *)
(* given: first_layer_used is 0, simulated_sequence and next_sequence      *)
(* follow the layers in order, so terminating_layer is final_layer; the    *)
(* FIFO, output-shift, pooling, flatten and pass-through restrictions of   *)
(* lines 243-323 and 508-561 are met by the inputs.                        *)

\* The diagnostics raised as warnings, after which the run goes on.
CheckWarns(w, cond, msg, a) == IF ~w.halted /\ cond THEN Eprint(w, msg, a, FALSE) ELSE w

\* if cond: eprint(msg) while the run is going; eprint's error argument
\* is left at its default, which is True.
Check(w, cond, msg, a) == IF ~w.halted /\ cond THEN Eprint(w, msg, a, TRUE) ELSE w

\* nprint(msg), izer/eprint.py (not part of src/): a Notice, which never
\* stops the run.  Its severity is recorded as 2.
Nprint(w, msg, a) == IF w.halted THEN w ELSE Emit(w, Ev(msg, a, 2, None))

\* Lines 184-220: the capability checks of the run options, and then the
\* defaults of state.pipeline and state.pll.  An optional flag is None, 0
\* or 1.
Capabilities(w, n) ==
    LET d == n.dev
        o == n.opt
        any(f) == \E i \in DOMAIN n.state : n.state[i][f]
        w1 == Check(w, o.start_layer > 0 /\ ~d.SUPPORT_LINK_LAYER,
                    "--start-layer is not supported", None)
        w2 == Check(w1, o.start_layer > d.MAX_START_LAYER,
                    "--start-layer exceeds the maximum", None)
        w3 == Check(w2, o.link_layer /\ ~d.SUPPORT_LINK_LAYER,
                    "--link-layer is not supported", None)
        w4 == Check(w3, any("rd_ahead") /\ ~d.SUPPORT_READ_AHEAD,
                    "readahead is not supported", None)
        w5 == Check(w4, any("calcx4") /\ ~d.SUPPORT_CALCX4,
                    "calcx4 is not supported", None)
        w6 == Check(w5, n.pipeline = 1 /\ ~d.SUPPORT_PIPELINE,
                    "--pipeline is not supported", None)
        w7 == Check(w6, n.pll = 1 /\ ~d.SUPPORT_PLL,
                    "--pll is not supported", None)
        w8 == Check(w7, o.fifo_go /\ ~d.SUPPORT_FIFO_GO,
                    "--fifo-go is not supported", None)
        w9 == Check(w8, o.snoop # None /\ ~d.SUPPORT_SNOOP,
                    "snoop is not supported", None)
        w10 == Check(w9, o.oneshot /\ ~d.SUPPORT_ONESHOT,
                     "--one-shot is not supported", None)
        pipeline == IF n.pipeline = None
                    THEN (IF d.SUPPORT_PIPELINE THEN 1 ELSE 0) ELSE n.pipeline
        pll == IF n.pll = None THEN pipeline ELSE n.pll
    IN  [w |-> w10,
         n |-> IF w10.halted THEN n
               ELSE [n EXCEPT !.pipeline = pipeline, !.pll = pll]]

\* Lines 288-298, for layer ll: a streaming 1x1 convolution is run on the
\* 3x3 kernel hardware.
Emulate1x1(v, ll) ==
    LET n == v.n
        s == n.state[ll + 1]
        weight33 == <<<<0, 0, 0>>, <<0, s.kernel[1][1], 0>>, <<0, 0, 0>>>>
    IN  IF ~v.w.halted /\ n.dev.EMULATE_1X1_STREAMING /\ s.streaming
           /\ s.kernel_size = <<1, 1>>
           /\ s.operator \in {"CONV2D", "CONVTRANSPOSE2D"}
        THEN IF s.padding # <<0, 0>>
             THEN [w |-> Raise(Nprint(v.w, "Using 3x3 kernel hardware for 1x1 streaming layer", ll),
                               "AssertionError"),
                   n |-> [n EXCEPT !.state[ll + 1].kernel = weight33]]
             ELSE [w |-> Nprint(v.w, "Using 3x3 kernel hardware for 1x1 streaming layer", ll),
                   n |-> [n EXCEPT !.state[ll + 1].kernel = weight33,
                                   !.state[ll + 1].padding = <<1, 1>>,
                                   !.hw_padding[ll + 1] = <<1, 1>>,
                                   !.state[ll + 1].kernel_size = <<3, 3>>]]
        ELSE v

RECURSIVE StreamLoop(_, _)
\* Lines 283-304: for ll in range(min(MAX_STREAM_LAYERS, layers)), from ll.
StreamLoop(v, ll) ==
    IF ll >= Len(v.n.state) \/ ll >= v.n.dev.MAX_STREAM_LAYERS THEN v
    ELSE StreamLoop(Emulate1x1(v, ll), ll + 1)

\* Lines 184-348: everything before the loops over the layers.  The map of
\* the start layer is kept as processor_map_0 and, in fast-FIFO quad mode,
\* replaced by its copies in all four groups (<< 16 adds 16 to each bit);
\* then the hardware's copies of the lists are taken.
Prepare(w, n) ==
    LET v1 == Capabilities(w, n)
        v2 == StreamLoop(v1, 0)
        n2 == v2.n
        used == {i \in DOMAIN n2.state : i > n2.opt.first_layer_used}
        w3 == Check(v2.w, ~n2.dev.SUPPORT_KERNEL_BYPASS
                          /\ \E i \in used : n2.state[i].bypass,
                    "Kernel bypass is not supported", None)
        sl == n2.opt.start_layer + 1
        pm0 == n2.state[sl].processor_map
        quad == UNION {{p + k : p \in pm0} : k \in {48, 32, 16, 0}}
        w4 == Check(w3, ~n2.dev.SUPPORT_BINARY_WEIGHTS
                        /\ \E i \in used : n2.state[i].quantization = 0 - 1,
                    "Binary weights (-1/+1) are not supported", None)
        hw == [i \in DOMAIN n2.state |->
                 [operator |-> n2.state[i].operator,
                  input_dim |-> n2.state[i].input_dim,
                  pooled_dim |-> n2.state[i].pooled_dim,
                  kernel_size |-> n2.state[i].kernel_size,
                  kernel |-> n2.state[i].kernel,
                  dilation |-> n2.state[i].dilation]]
        n3 == IF w3.halted THEN n2
              ELSE [n2 EXCEPT !.processor_map_0 = pm0,
                              !.state[sl].processor_map =
                                  IF n2.opt.fast_fifo_quad THEN quad ELSE pm0]
    IN  [w |-> w4, n |-> IF w4.halted THEN n3 ELSE [n3 EXCEPT !.hw = hw]]

\* The expansion with the processors of one pass never rounded.
ExpandNoRounding(chan, d) ==
    LET e == (chan + d.MAX_PROC - 1) \div d.MAX_PROC
    IN  [expand |-> e, thresh |-> (chan + e - 1) \div e]

\* Lines 375-391: the passes a channel count needs and the processors of
\* one pass.  (x + P_SHARED-1) & ~(P_SHARED-1) rounds x up to a multiple
\* of P_SHARED, a power of two.
Expand(chan, d) ==
    LET e == (chan + d.MAX_PROC - 1) \div d.MAX_PROC
        t == (chan + e - 1) \div e
        x == t + d.P_SHARED - 1
        r == x - (x % d.P_SHARED)
    IN  [expand |-> e,
         thresh |-> IF chan > d.MAX_PROC
                    THEN (IF r < d.MAX_PROC THEN r ELSE d.MAX_PROC) ELSE t]

\* The kernel with the zeros put after its last tap.
StretchAtEnd(kernel, ks, dil) ==
    [j \in 1 .. ((ks - 1) * dil + 1) |-> IF j <= ks THEN kernel[j] ELSE <<0>>]

\* Lines 440-443: np.insert(kernel[ll], kzeros, 0, axis=1) puts dil - 1
\* zeros before each tap but the first.
Stretch(kernel, ks, dil) ==
    [j \in 1 .. ((ks - 1) * dil + 1) |->
        IF (j - 1) % dil = 0 THEN kernel[((j - 1) \div dil) + 1] ELSE <<0>>]

\* Lines 429-495: a dilated Conv1d of layer ll is mapped to the hardware,
\* by zeros between the taps of the kernel or by the Conv2d hardware.
Dilate(v, ll) ==
    LET n == v.n
        d == n.dev
        i == ll + 1
        s == n.state[i]
        ks == s.kernel_size[1]
        dil == s.dilation[1]
        w1 == Check(v.w, s.operator # "CONV1D", "dilation > 1 is supported for Conv1d only", ll)
        w2 == Check(w1, ks = 1, "Kernel length must be greater than 1", ll)
        k1 == Stretch(s.kernel, ks, dil)
        w3 == Check(w2, s.pool[1] # 1, "Pooling must be 1", ll)
        w4 == Check(w3, s.padding[1] > d.MAX_DILATION_1D_PAD, "Padding too large for dilation", ll)
        w5 == Check(w4, s.operands # 1, "Operands must be 1", ll)
        w6 == Check(w5, s.bypass \/ s.rd_ahead \/ s.streaming,
                    "bypass, flatten, rd_ahead, streaming must be False", ll)
        w7 == Check(w6, dil > d.MAX_DILATION_1D, "dilation too large", ll)
        in0 == (s.input_dim[1] + dil - 1) \div dil
        mid == [j \in 1 .. ks |-> <<0, s.kernel[j][1], 0>>]
        k2 == IF ks = 2 THEN <<<<0, 0, 0>>>> \o mid ELSE mid
        ign == IF ks = 2 THEN n.out_ignore[i] ELSE 4 * dil * n.out_expand[i]
        n7 == [n EXCEPT !.hw[i].operator = "CONV2D",
                        !.hw[i].input_dim = <<in0, dil>>,
                        !.hw[i].pooled_dim = <<in0, dil>>,
                        !.hw_padding[i] = <<1, 1>>,
                        !.hw[i].kernel_size = <<3, 3>>,
                        !.hw[i].dilation = <<1, 1>>,
                        !.out_pad[i] = in0 * dil - s.output_dim[1],
                        !.out_ignore[i] = ign,
                        !.hw[i].kernel = k2]
    IN  IF v.w.halted \/ dil <= 1 THEN v
        ELSE IF w2.halted THEN [w |-> w2, n |-> n]
        ELSE IF (ks - 1) * dil < 9
        THEN [w |-> w2, n |-> [n EXCEPT !.hw[i].kernel = k1,
                                        !.hw[i].kernel_size = <<Len(k1), 1>>]]
        ELSE IF ks <= d.MAX_DILATION_1D_KERNEL
        THEN IF w7.halted THEN [w |-> w7, n |-> n]
             ELSE [w |-> Check(Nprint(w7, "Using Conv2d hardware for dilated Conv1d", ll),
                               s.out_offset < ign, "out_offset too small for dilation", ll),
                   n |-> n7]
        ELSE [w |-> Check(w2, TRUE, "Kernel length too large for dilation", ll), n |-> n]

\* The check of the output's size made for every layer.
OutputSizeCheckEveryLayer(v, ll) ==
    LET n == v.n
        i == ll + 1
        s == n.state[i]
        out_size == ((s.output_dim[1] * s.output_dim[2] + n.out_pad[i])
                     * n.out_expand[i] * 4 * s.output_width) \div 8
    IN  [v EXCEPT !.w = Check(@, out_size + s.out_offset > n.dev.INSTANCE_WIDTH * 16,
                              "output exceeds data memory instance size", ll)]

\* Lines 497-506: the size of layer ll's output against a data memory
\* instance.
OutputSizeCheck(v, ll) ==
    LET n == v.n
        i == ll + 1
        s == n.state[i]
        out_size == ((s.output_dim[1] * s.output_dim[2] + n.out_pad[i])
                     * n.out_expand[i] * 4 * s.output_width) \div 8
    IN  [v EXCEPT !.w = Check(@, (~s.streaming \/ ll = Len(n.state) - 1)
                                 /\ out_size + s.out_offset > n.dev.INSTANCE_WIDTH * 16,
                              "output exceeds data memory instance size", ll)]

\* Lines 352-630 for layer ll: the expansion of the layer, the default of
\* tcalc (None, or 0 or 1 for False and True), its sizes, the dilation,
\* grouped convolution and multi-pass stride.
ValidateLayer(w, n, ll) ==
    LET d == n.dev
        i == ll + 1
        s == n.state[i]
        oe == Expand(s.output_chan, d)
        ie == Expand(s.input_chan, d)
        n1 == [n EXCEPT !.out_expand[i] = oe.expand,
                        !.out_expand_thresh[i] = oe.thresh,
                        !.in_expand[i] = ie.expand,
                        !.state[i].tcalc =
                            IF @ = None
                            THEN (IF s.rd_ahead /\ ie.expand > 1 THEN 1 ELSE 0)
                            ELSE @,
                        !.in_expand_thresh[i] = ie.thresh]
        in_size == s.input_dim[1] * s.input_dim[2] * ie.expand * s.operands
                   * (IF s.big_data THEN 1 ELSE 4)
        w1 == Check(w, ~s.streaming /\ in_size + s.in_offset > d.INSTANCE_WIDTH * 16,
                    "input exceeds data memory instance size", ll)
        v3 == OutputSizeCheck(Dilate([w |-> w1, n |-> n1], ll), ll)
        w4 == Check(v3.w, s.input_chan % s.conv_groups # 0
                          \/ s.output_chan % s.conv_groups # 0,
                    "convolution groups does not divide the channels", ll)
        w5 == Check(w4, s.conv_groups > 1 /\ ~d.SUPPORT_DEPTHWISE,
                    "convolution groups > 1 are not supported", ll)
        w6 == Check(w5, s.conv_groups > 1 /\ (s.conv_groups # s.input_chan
                                              \/ s.conv_groups # s.output_chan),
                    "convolution groups must be equal to the channels", ll)
        w7 == Check(w6, s.input_skip # 0 /\ ~d.SUPPORT_MULTIPASS_STRIDE,
                    "in_skip must be 0 for this device", ll)
    IN  [w |-> w7, n |-> v3.n]

\* popcount(x), izer/utils.py (not part of src/): the number of bits set
\* in x.
Popcount(x) == Cardinality(x)

\* The checks of the maps without the check of processor_map_0.
ProcessorMapCheckQuadExempt(w, n, ll) ==
    LET i == ll + 1
        s == n.state[i]
        quad == ll = n.opt.start_layer /\ n.opt.fast_fifo_quad
        w1 == Check(w, ~quad /\ Popcount(s.processor_map) # n.in_expand_thresh[i],
                    "processor map has the wrong number of bits", ll)
    IN  Check(w1, Popcount(s.output_processor_map) # n.out_expand_thresh[i],
              "processor output map has the wrong number of bits", ll)

\* Lines 711-730: the bits of layer ll's processor maps against the
\* processors of one pass.
ProcessorMapCheck(w, n, ll) ==
    LET i == ll + 1
        s == n.state[i]
        quad == ll = n.opt.start_layer /\ n.opt.fast_fifo_quad
        w1 == Check(w, ~quad /\ Popcount(s.processor_map) # n.in_expand_thresh[i],
                    "processor map has the wrong number of bits", ll)
        w2 == Check(w1, quad /\ Popcount(n.processor_map_0) # n.in_expand_thresh[i],
                    "processor map has the wrong number of bits", ll)
    IN  Check(w2, Popcount(s.output_processor_map) # n.out_expand_thresh[i],
              "processor output map has the wrong number of bits", ll)

\* Lines 701-785 for layer ll: the processors used so far, the channel
\* counts and the processor maps.
MapChecks(w, n, ll) ==
    LET s == n.state[ll + 1]
        w1 == Check(w, s.input_chan > n.dev.MAX_CHANNELS, "too many input channels", ll)
        w2 == Check(w1, s.output_chan > n.dev.MAX_CHANNELS, "too many output channels", ll)
    IN  [w |-> ProcessorMapCheck(w2, n, ll),
         n |-> [n EXCEPT !.processors_used = @ \cup s.processor_map]]

\* The groups used, from the input maps alone.
GroupCheckInputsOnly(w, n) ==
    LET groups_used == {g \in 0 .. (n.dev.P_NUMGROUPS - 1) :
                           \E p \in n.processors_used : p \div n.dev.P_NUMPRO = g}
    IN  [w |-> Check(w, 0 \notin groups_used, "Group 0 is not used", None),
         n |-> [n EXCEPT !.groups_used = groups_used]]

\* Lines 787-794: the groups that have a processor in use;
\* (x >> group*P_NUMPRO) % 2**P_NUMPRO is not 0 when x has a bit of the
\* group.  Group 0 has to be one of them.
GroupCheck(w, n) ==
    LET final_layer == Len(n.state)
        x == n.processors_used \cup n.state[final_layer].output_processor_map
        groups_used == {g \in 0 .. (n.dev.P_NUMGROUPS - 1) :
                           \E p \in x : p \div n.dev.P_NUMPRO = g}
    IN  [w |-> Check(w, 0 \notin groups_used, "Group 0 is not used", None),
         n |-> [n EXCEPT !.groups_used = groups_used]]

\* APB.write_ctl, apbaccess.py lines 327-349, with the register's address.
WriteCtl(w, addr, val, force_write) ==
    IF force_write \/ val # 0 \/ cfg.write_zero_regs
    THEN TopWrite(w, addr, val, FALSE, None, None, TRUE)
    ELSE w

\* The diagnostics of the validation are followed in emitted.  A fatal
\* diagnostic unwinds create_net: the with statement of line 833 closes
\* its handle, and nothing closes a handle that open() returned.
Validated(v, pc, ll, op) ==
    /\ Commit(v.w)
    /\ net' = [v.n EXCEPT !.pc = IF v.w.halted THEN "stopped" ELSE pc, !.ll = ll,
                          !.files = IF v.w.halted THEN @ \ {"memfile"} ELSE @]
    /\ last' = [op |-> op, ll |-> net.ll]
    /\ emitted' = emitted \o out'
    /\ UNCHANGED <<unsent, stream, stream_buf>>

\* create_net up to line 348.
DoPrepare ==
    /\ net.pc = "prepare"
    /\ Validated(Prepare(World, net), "layers", net.opt.first_layer_used, "prepare")

\* One pass of the loop of line 352.
DoValidateLayer ==
    /\ net.pc = "layers"
    /\ IF net.ll + 1 < Len(net.state)
       THEN Validated(ValidateLayer(World, net, net.ll), "layers", net.ll + 1,
                      "validate_layer")
       ELSE Validated(ValidateLayer(World, net, net.ll), "files",
                      net.opt.first_layer_used, "validate_layer")

\* Lines 670-694: the log and the header files that the options ask for.
DoOpenFiles ==
    /\ net.pc = "files"
    /\ LET o == net.opt
           headers == ~o.block_mode /\ (o.embedded_code \/ o.compact_data)
           opened ==
               (IF o.log THEN {"log"} ELSE {})
               \cup (IF headers THEN {"sampledata_header"} ELSE {})
               \cup (IF headers /\ o.generate_kat /\ o.result_filename # None
                     THEN {"sampleoutput_header"} ELSE {})
               \cup (IF ~o.block_mode /\ (o.embedded_code \/ o.compact_weights)
                     THEN {"weight_header"} ELSE {})
       IN  Validated([w |-> World, n |-> [net EXCEPT !.files = @ \cup opened]],
                     "maps", net.ll, "open")

\* One pass of the loop of line 701.
DoMapChecks ==
    /\ net.pc = "maps"
    /\ IF net.ll + 1 < Len(net.state)
       THEN Validated(MapChecks(World, net, net.ll), "maps", net.ll + 1, "map_checks")
       ELSE Validated(MapChecks(World, net, net.ll), "groups", net.ll, "map_checks")

\* Lines 787-794.
DoGroupCheck ==
    /\ net.pc = "groups"
    /\ Validated(GroupCheck(World, net), "generate", net.ll, "group_check")

\* Lines 828-833 and the first register write of the generated code, line
\* 1060: the API file and, in a with statement, the main output file.
DoGenerate ==
    /\ net.pc = "generate"
    /\ LET o == net.opt
           opened == {"memfile"}
                     \cup (IF o.embedded_code /\ o.api_filename # "none"
                           THEN {"apifile"} ELSE {})
       IN  Validated([w |-> WriteCtl(World, 0, 1, FALSE),
                      n |-> [net EXCEPT !.files = @ \cup opened]],
                     "done", net.ll, "write_ctl")

\* The normal return of create_net, lines 2833-2871 and 2926: the with
\* statement has closed the main output file, and the header files and the
\* API file are closed.
DoReturn ==
    /\ net.pc = "done"
    /\ ~net.returned
    /\ Validated([w |-> World,
                  n |-> [net EXCEPT !.returned = TRUE,
                             !.files = @ \ {"memfile", "sampledata_header",
                                            "sampleoutput_header",
                                            "weight_header", "apifile"}]],
                 "done", net.ll, "return")

---------------------------------------------------------------------------
(* Networks for the validation.  Dev0 has every capability, and the        *)
(* geometry of a device with four groups of 16 processors and data memory  *)
(* instances of 32768 bytes; Layer0 is a 3x3 convolution of a 64x64 image  *)
(* with two channels on processors 0 and 1.                                *)

Dev0 ==
    [SUPPORT_LINK_LAYER |-> TRUE, MAX_START_LAYER |-> 1,
     SUPPORT_READ_AHEAD |-> TRUE, SUPPORT_CALCX4 |-> TRUE,
     SUPPORT_PIPELINE |-> TRUE, SUPPORT_PLL |-> TRUE,
     SUPPORT_FIFO_GO |-> TRUE, SUPPORT_SNOOP |-> TRUE,
     SUPPORT_ONESHOT |-> TRUE, SUPPORT_KERNEL_BYPASS |-> TRUE,
     SUPPORT_BINARY_WEIGHTS |-> TRUE, SUPPORT_DEPTHWISE |-> TRUE,
     SUPPORT_MULTIPASS_STRIDE |-> TRUE, EMULATE_1X1_STREAMING |-> TRUE,
     MAX_STREAM_LAYERS |-> 8, MAX_PROC |-> 64, P_SHARED |-> 4,
     P_NUMPRO |-> 16, P_NUMGROUPS |-> 4, INSTANCE_WIDTH |-> 2048,
     MAX_CHANNELS |-> 1024, MAX_DILATION_1D_KERNEL |-> 3,
     MAX_DILATION_1D_PAD |-> 1, MAX_DILATION_1D |-> 16,
     C_GROUP_OFFS |-> 1048576, C_MRAM_BASE |-> 524288, MASK_OFFS |-> 128,
     MASK_WIDTH_SMALL |-> 8, MASK_WIDTH_LARGE |-> 16,
     MASK_INSTANCES_EACH |-> 2, C_FIFO_BASE |-> 1024,
     FAST_FIFO_BASE |-> 4194304, REQUIRE_NEW_STREAMING |-> FALSE,
     MAX_FBUF_BITS |-> 17]

Opt0 ==
    [start_layer |-> 0, first_layer_used |-> 0, link_layer |-> FALSE,
     pipeline |-> None, pll |-> None, fifo_go |-> FALSE, snoop |-> None,
     oneshot |-> FALSE, fast_fifo_quad |-> FALSE, log |-> FALSE,
     block_mode |-> FALSE, embedded_code |-> FALSE, compact_data |-> FALSE,
     compact_weights |-> FALSE, generate_kat |-> TRUE,
     result_filename |-> None, api_filename |-> "none"]

Layer0 ==
    [operator |-> "CONV2D", kernel_size |-> <<3, 3>>, padding |-> <<1, 1>>,
     dilation |-> <<1, 1>>, kernel |-> <<<<1, 2, 3>>, <<4, 5, 6>>, <<7, 8, 9>>>>,
     streaming |-> FALSE, input_chan |-> 2, output_chan |-> 2,
     processor_map |-> {0, 1}, output_processor_map |-> {0, 1},
     input_dim |-> <<64, 64>>, pooled_dim |-> <<64, 64>>,
     output_dim |-> <<64, 64>>, in_offset |-> 0, out_offset |-> 0,
     output_width |-> 8, operands |-> 1, big_data |-> FALSE, pool |-> <<1, 1>>,
     bypass |-> FALSE, rd_ahead |-> FALSE, calcx4 |-> FALSE,
     quantization |-> 8, conv_groups |-> 1, input_skip |-> 0, tcalc |-> None]

\* A dilated Conv1d with three taps over 64 samples.
Conv1d(dil, out_offset) ==
    [Layer0 EXCEPT !.operator = "CONV1D", !.kernel_size = <<3, 1>>,
                   !.padding = <<0, 0>>, !.dilation = <<dil, 1>>,
                   !.kernel = <<<<1>>, <<2>>, <<3>>>>, !.input_dim = <<64, 1>>,
                   !.pooled_dim = <<64, 1>>, !.output_dim = <<64 - 2 * dil, 1>>,
                   !.out_offset = out_offset]

\* Layers of all kinds: within the limits, with an output that ends at the
\* end of the instance or past it, streaming or not, with an input past
\* it, with a bit too few or too many in a processor map, on group 1
\* only or from group 1 to group 0, with 65 output channels in two passes, a streaming 1x1
\* convolution, and Conv1d with dilation 2, 5 (with room for the ignored
\* output and without), 17, with two taps and dilation 9, four taps and
\* dilation 3, and one tap.
NetLayers ==
    {Layer0,
     [Layer0 EXCEPT !.out_offset = 16384],
     [Layer0 EXCEPT !.out_offset = 16388],
     [Layer0 EXCEPT !.out_offset = 16388, !.streaming = TRUE],
     [Layer0 EXCEPT !.in_offset = 16388],
     [Layer0 EXCEPT !.processor_map = {0}],
     [Layer0 EXCEPT !.output_processor_map = {0, 1, 2}],
     [Layer0 EXCEPT !.processor_map = {16, 17}, !.output_processor_map = {16, 17}],
     [Layer0 EXCEPT !.processor_map = {16, 17}],
     [Layer0 EXCEPT !.output_chan = 65, !.output_processor_map = 0 .. 35],
     [Layer0 EXCEPT !.streaming = TRUE, !.kernel_size = <<1, 1>>,
                    !.padding = <<0, 0>>, !.kernel = <<<<5>>>>],
     Conv1d(2, 0),
     Conv1d(5, 32),
     Conv1d(5, 0),
     Conv1d(17, 128),
     [Conv1d(9, 0) EXCEPT !.kernel_size = <<2, 1>>, !.kernel = <<<<1>>, <<2>>>>],
     [Conv1d(3, 0) EXCEPT !.kernel_size = <<4, 1>>,
                          !.kernel = <<<<1>>, <<2>>, <<3>>, <<4>>>>],
     [Conv1d(2, 0) EXCEPT !.kernel_size = <<1, 1>>, !.kernel = <<<<1>>>>]}

\* create_net is entered with the device, the options and the layers.
InitNet(dev, opt, layers) ==
    LET zeros == [i \in DOMAIN layers |-> 0]
    IN  /\ InitSink(DefaultCfg, 1)
        /\ unsent = <<>>
        /\ stream = <<>>
        /\ emitted = <<>>
        /\ stream_buf = <<>>
        /\ net = [pc |-> "prepare", ll |-> 0, dev |-> dev, opt |-> opt,
                  given |-> layers, state |-> layers, hw |-> <<>>,
                  hw_padding |-> [i \in DOMAIN layers |-> layers[i].padding],
                  out_pad |-> zeros, out_ignore |-> zeros,
                  in_expand |-> zeros, in_expand_thresh |-> zeros,
                  out_expand |-> zeros, out_expand_thresh |-> zeros,
                  processor_map_0 |-> {}, processors_used |-> {},
                  groups_used |-> {}, pipeline |-> opt.pipeline, pll |-> opt.pll,
                  files |-> {}, returned |-> FALSE]

InitLayers ==
    \E e \in BOOLEAN, q \in BOOLEAN, layers \in [1 .. NumLayers -> NetLayers] :
        InitNet([Dev0 EXCEPT !.EMULATE_1X1_STREAMING = e],
                [Opt0 EXCEPT !.fast_fifo_quad = q], layers)

NextNet ==
    \/ DoPrepare
    \/ DoValidateLayer
    \/ DoMapChecks
    \/ DoGroupCheck
    \/ DoGenerate
    \/ DoOpenFiles
    \/ DoReturn

SpecNet == InitLayers /\ [][NextNet]_vars

\* The processor maps of layer l, as configured, have the bits of one pass.
MapsFit(l) ==
    /\ Cardinality(l.processor_map) = Expand(l.input_chan, net.dev).thresh
    /\ Cardinality(l.output_processor_map) = Expand(l.output_chan, net.dev).thresh

\* C14: a network gets past the checks of the processor maps only if, in
\* every layer, the input processor map as it was configured has as many
\* bits as the input expansion threshold and the output processor map as
\* many as the output expansion threshold; the check of a layer whose maps
\* do not fit ends the run with an Error for that layer, and no register
\* has been written when a run ends that way.
C14_MapsAsConfigured ==
    /\ net.pc \in {"groups", "generate", "done"} =>
           \A i \in DOMAIN net.given : MapsFit(net.given[i])
    /\ (last.op = "map_checks" /\ ~MapsFit(net.given[last.ll + 1])) =>
           /\ halted
           /\ out # <<>>
           /\ out[Len(out)].k \in {"processor map has the wrong number of bits",
                                   "processor output map has the wrong number of bits"}
           /\ out[Len(out)].a = last.ll
           /\ out[Len(out)].v = 1
    /\ writes > 0 => net.pc = "done"

\* Witness of C14: a network in fast-FIFO quad mode has passed the checks
\* and its first register is written; the start layer's map was configured
\* with two bits and is now held with eight.
C14_Witness ==
    /\ net.pc = "done"
    /\ writes = 1
    /\ net.opt.fast_fifo_quad
    /\ Cardinality(net.given[1].processor_map) = 2
    /\ net.state[1].processor_map = {0, 1, 16, 17, 32, 33, 48, 49}
    /\ net.in_expand_thresh[1] = 2

\* C14 as stated, for the maps the configuration holds when the checks are
\* passed: every layer's input map has as many bits as the threshold.
C14_MapsInEffect ==
    net.pc \in {"groups", "generate", "done"} =>
        \A i \in DOMAIN net.state :
            /\ Cardinality(net.state[i].processor_map) = net.in_expand_thresh[i]
            /\ Cardinality(net.state[i].output_processor_map) = net.out_expand_thresh[i]

\* The output of layer i (counted from 1), at its offset, ends past the
\* end of a data memory instance.
OutputOver(i) ==
    LET s == net.state[i]
        out_size == ((s.output_dim[1] * s.output_dim[2] + net.out_pad[i])
                     * net.out_expand[i] * 4 * s.output_width) \div 8
    IN  out_size + s.out_offset > net.dev.INSTANCE_WIDTH * 16

\* The layer validated last has raised the capacity Error for its output.
OutputError ==
    \E j \in DOMAIN out : /\ out[j].k = "output exceeds data memory instance size"
                          /\ out[j].a = last.ll
                          /\ out[j].v = 1

\* The validation of the last layer stopped before its output was looked at.
StoppedBefore ==
    out # <<>> /\ out[1].k # "output exceeds data memory instance size"

\* C15: a layer that does not stream, and the terminating layer, raises
\* the capacity Error, which ends the run, exactly when the size of its
\* output plus its output offset is more than the capacity of an
\* instance; at the capacity or below it raises none.  A streaming layer
\* that is not the terminating layer never raises it.
C15_CapacityOfWrittenOutputs ==
    last.op = "validate_layer" =>
        LET i == last.ll + 1
            checked == ~net.state[i].streaming \/ i = Len(net.state)
        IN  /\ OutputError <=> (checked /\ OutputOver(i) /\ ~StoppedBefore)
            /\ OutputError => halted

\* Witness of C15: a streaming layer before the terminating one has passed
\* the validation with an output that ends past the instance.
C15_Witness ==
    /\ last.op = "validate_layer"
    /\ last.ll = 0
    /\ net.state[1].streaming
    /\ net.state[1].out_offset = 16388
    /\ OutputOver(1)
    /\ out = <<>>
    /\ ~halted

\* C15 as stated: every layer whose output ends past the instance raises
\* the capacity Error.
C15_EveryLayer ==
    (last.op = "validate_layer" /\ OutputOver(last.ll + 1) /\ ~StoppedBefore)
        => OutputError

\* Layer i (counted from 1) as configured breaks a rule of the validation:
\* its maps do not fit, or its input, not streamed, ends past the end of a
\* data memory instance.
Faulty(i) ==
    LET l == net.given[i]
        in_size == l.input_dim[1] * l.input_dim[2]
                   * Expand(l.input_chan, net.dev).expand * l.operands
                   * (IF l.big_data THEN 1 ELSE 4)
    IN  \/ ~MapsFit(l)
        \/ ~l.streaming /\ in_size + l.in_offset > net.dev.INSTANCE_WIDTH * 16

\* C17, as stated: the validation looks at all layers even after it has
\* found a violation, so that a run that is stopped has reported every
\* layer that breaks a rule.
C17_EveryFaultyLayerReported ==
    net.pc = "stopped" =>
        \A i \in DOMAIN net.given :
            Faulty(i) => \E j \in DOMAIN emitted : emitted[j].a = i - 1

\* A processor of group 0 is in the input map of some layer or in the
\* output map of the final layer.
Group0InUse ==
    \E p \in UNION {net.state[i].processor_map : i \in DOMAIN net.state}
             \cup net.state[Len(net.state)].output_processor_map :
        p < net.dev.P_NUMPRO

\* C19: group 0 is among the groups used of every network that gets past
\* the check of the groups; when no layer's input processor map and not
\* the final layer's output processor map has a processor of group 0, the
\* check ends the run with an Error, and no register has been written.
C19_Group0Used ==
    /\ last.op = "group_check" =>
           /\ halted <=> ~Group0InUse
           /\ ~Group0InUse =>
                  /\ Len(out) = 1
                  /\ out[1].k = "Group 0 is not used"
                  /\ out[1].v = 1
                  /\ writes = 0
    /\ net.pc \in {"generate", "done"} => 0 \in net.groups_used /\ Group0InUse
    /\ writes > 0 => net.pc = "done" /\ 0 \in net.groups_used

\* Witness of C19: a network whose maps are all in group 1 has been
\* stopped by the check of the groups.
C19_Witness ==
    /\ last.op = "group_check"
    /\ halted
    /\ net.pc = "stopped"
    /\ net.processors_used = {16, 17}
    /\ net.groups_used = {1}
    /\ out[1].k = "Group 0 is not used"
    /\ writes = 0

\* C20, as stated: whatever the validation rewrites for the hardware, the
\* operator, kernel size, padding, dilation and kernel weights that the
\* configuration holds for every layer stay the values that were passed
\* in; only the hardware's copies change.
C20_UserVisibleUnchanged ==
    \A i \in DOMAIN net.given :
        /\ net.state[i].operator = net.given[i].operator
        /\ net.state[i].kernel_size = net.given[i].kernel_size
        /\ net.state[i].padding = net.given[i].padding
        /\ net.state[i].dilation = net.given[i].dilation
        /\ net.state[i].kernel = net.given[i].kernel

---------------------------------------------------------------------------
(* The capability checks: devices that lack one capability, with and       *)
(* without pipelining and a PLL, or that allow no start layer but 0, and   *)
(* runs that ask for at most one feature, with --pipeline and --pll left   *)
(* out, off or on.                                                         *)

CapDevs ==
    LET flags == {"SUPPORT_LINK_LAYER", "SUPPORT_READ_AHEAD", "SUPPORT_CALCX4",
                  "SUPPORT_FIFO_GO", "SUPPORT_SNOOP", "SUPPORT_ONESHOT",
                  "SUPPORT_KERNEL_BYPASS", "SUPPORT_BINARY_WEIGHTS",
                  "SUPPORT_DEPTHWISE", "SUPPORT_MULTIPASS_STRIDE"}
        lacking == {Dev0, [Dev0 EXCEPT !.MAX_START_LAYER = 0]}
                   \cup {[Dev0 EXCEPT ![f] = FALSE] : f \in flags}
    IN  {[d EXCEPT !.SUPPORT_PIPELINE = a, !.SUPPORT_PLL = b] :
             d \in lacking, a \in BOOLEAN, b \in BOOLEAN}

CapRequests ==
    {[opt |-> Opt0, layer |-> Layer0],
     [opt |-> [Opt0 EXCEPT !.start_layer = 1], layer |-> Layer0],
     [opt |-> [Opt0 EXCEPT !.link_layer = TRUE], layer |-> Layer0],
     [opt |-> [Opt0 EXCEPT !.fifo_go = TRUE], layer |-> Layer0],
     [opt |-> [Opt0 EXCEPT !.snoop = 0], layer |-> Layer0],
     [opt |-> [Opt0 EXCEPT !.oneshot = TRUE], layer |-> Layer0],
     [opt |-> Opt0, layer |-> [Layer0 EXCEPT !.rd_ahead = TRUE]],
     [opt |-> Opt0, layer |-> [Layer0 EXCEPT !.calcx4 = TRUE]],
     [opt |-> Opt0, layer |-> [Layer0 EXCEPT !.bypass = TRUE]],
     [opt |-> Opt0, layer |-> [Layer0 EXCEPT !.quantization = 0 - 1]],
     [opt |-> Opt0, layer |-> [Layer0 EXCEPT !.conv_groups = 2]],
     [opt |-> Opt0, layer |-> [Layer0 EXCEPT !.input_skip = 1]]}

InitCaps ==
    \E d \in CapDevs, r \in CapRequests, p \in {None, 0, 1}, q \in {None, 0, 1} :
        InitNet(d, [r.opt EXCEPT !.pipeline = p, !.pll = q],
                [i \in 1 .. NumLayers |-> IF i = NumLayers THEN r.layer ELSE Layer0])

SpecCaps == InitCaps /\ [][NextNet]_vars

\* For each feature a pair: the run uses it, the device is capable of it.
\* pll is the PLL option to go by: as given, or as in effect.
Features(pll) ==
    LET d == net.dev
        o == net.opt
        any(f) == \E i \in DOMAIN net.given : net.given[i][f]
        used == {i \in DOMAIN net.given : i > o.first_layer_used}
    IN  {<<o.start_layer > 0, d.SUPPORT_LINK_LAYER /\ o.start_layer <= d.MAX_START_LAYER>>,
         <<o.link_layer, d.SUPPORT_LINK_LAYER>>,
         <<any("rd_ahead"), d.SUPPORT_READ_AHEAD>>,
         <<any("calcx4"), d.SUPPORT_CALCX4>>,
         <<net.pipeline = 1, d.SUPPORT_PIPELINE>>,
         <<pll = 1, d.SUPPORT_PLL>>,
         <<o.fifo_go, d.SUPPORT_FIFO_GO>>,
         <<o.snoop # None, d.SUPPORT_SNOOP>>,
         <<o.oneshot, d.SUPPORT_ONESHOT>>,
         <<\E i \in used : net.given[i].quantization = 0 - 1, d.SUPPORT_BINARY_WEIGHTS>>,
         <<\E i \in used : net.given[i].bypass, d.SUPPORT_KERNEL_BYPASS>>,
         <<\E i \in used : net.given[i].conv_groups > 1, d.SUPPORT_DEPTHWISE>>,
         <<\E i \in used : net.given[i].input_skip # 0, d.SUPPORT_MULTIPASS_STRIDE>>}

\* The run is past the capability checks.
PastCapabilities == net.pc \in {"files", "maps", "groups", "generate", "done"}

\* C18: a run gets past the capability checks only if the device has the
\* capability of every feature the run asked for: start-layer offset,
\* layer linking, read-ahead, packed x4 weights, pipelining (also when it
\* is in effect by default), --pll, FIFO-go, snoop, one-shot, binary
\* weights, kernel bypass, grouped convolution and multi-pass stride.
\* Otherwise the run ends with a fatal diagnostic, and nothing is written.
C18_RequestedFeaturesSupported ==
    /\ PastCapabilities => \A f \in Features(net.opt.pll) : f[1] => f[2]
    /\ net.pc = "stopped" => /\ out # <<>>
                             /\ out[Len(out)].v = 1
                             /\ writes = 0
    /\ writes > 0 => net.pc = "done"

\* Witness of C18: the first register is written in a run in which the PLL
\* is in effect by default, with pipelining, on a device that has
\* pipelining and no PLL.
C18_Witness ==
    /\ net.pc = "done"
    /\ writes = 1
    /\ net.opt.pll = None
    /\ net.pll = 1
    /\ net.pipeline = 1
    /\ ~net.dev.SUPPORT_PLL
    /\ net.dev.SUPPORT_PIPELINE

\* C18 as stated: past the capability checks the device has the
\* capability of every feature that is in effect, the PLL included.
C18_FeaturesInEffectSupported ==
    PastCapabilities => \A f \in Features(net.pll) : f[1] => f[2]

\* The Conv1d layer validated last has a dilation above 1, and the
\* validation got as far as the dilation.
DilatedConv1d ==
    /\ last.op = "validate_layer"
    /\ net.given[last.ll + 1].operator = "CONV1D"
    /\ net.given[last.ll + 1].dilation[1] > 1
    /\ (out = <<>> \/ out[1].k # "input exceeds data memory instance size")

\* What the validation made of the dilated layer validated last: the
\* hardware's kernel is the configured one with d - 1 zeros between the
\* taps, or the layer is a 3x3 Conv2d for the hardware, or nothing was
\* changed; whether the Notice of the Conv2d hardware was raised; and
\* whether the layer is within the limits the Conv2d hardware has for it.
Dilated ==
    LET i == last.ll + 1
        l == net.given[i]
        k == l.kernel_size[1]
        d == l.dilation[1]
        h == net.hw[i]
        len == (k - 1) * d + 1
    IN  [fits |-> (k - 1) * d < 9,
         bound |-> k <= net.dev.MAX_DILATION_1D_KERNEL,
         stretched |-> /\ h.operator = "CONV1D"
                       /\ h.kernel_size = <<len, 1>>
                       /\ Len(h.kernel) = len
                       /\ \A t \in 1 .. k : h.kernel[(t - 1) * d + 1] = l.kernel[t]
                       /\ \A j \in 1 .. len : (j - 1) % d # 0 => h.kernel[j] = <<0>>,
         rewritten |-> /\ h.operator = "CONV2D"
                       /\ h.kernel_size = <<3, 3>>
                       /\ net.hw_padding[i] = <<1, 1>>
                       /\ h.dilation = <<1, 1>>,
         untouched |-> /\ h.operator = "CONV1D"
                       /\ h.kernel = l.kernel
                       /\ h.kernel_size = l.kernel_size,
         notice |-> \E j \in DOMAIN out :
                        /\ out[j].k = "Using Conv2d hardware for dilated Conv1d"
                        /\ out[j].v = 2,
         error |-> \E j \in DOMAIN out : out[j].v = 1,
         allowed |-> /\ l.pool[1] = 1
                     /\ l.padding[1] <= net.dev.MAX_DILATION_1D_PAD
                     /\ l.operands = 1
                     /\ ~(l.bypass \/ l.rd_ahead \/ l.streaming)
                     /\ d <= net.dev.MAX_DILATION_1D
                     /\ l.out_offset >= net.out_ignore[i]]

\* C21: a Conv1d layer with dilation d > 1 and k taps has one outcome.  One
\* tap is an Error.  Otherwise, if (k - 1) * d < 9 the hardware's kernel
\* is stretched to (k - 1) * d + 1 taps with zeros between the taps
\* and no Notice is raised.  Otherwise, if k is within the bound of the
\* Conv2d hardware, the layer is rewritten to a 3x3 Conv2d with padding
\* (1, 1) and dilation (1, 1) and the Notice is raised, provided pooling,
\* padding, operands, bypass, read-ahead, streaming and the dilation are
\* within the limits of the Conv2d hardware; the output offset below the
\* ignored output is then still an Error, and a layer outside the limits
\* is an Error without any rewrite.  Otherwise it is an Error.
C21_DilationOutcome ==
    DilatedConv1d =>
        LET o == Dilated
            k == net.given[last.ll + 1].kernel_size[1]
        IN  /\ k = 1 => halted /\ o.untouched /\ ~o.notice
            /\ (k > 1 /\ o.fits) => o.stretched /\ ~o.notice
            /\ (~o.fits /\ o.bound /\ o.allowed) => o.rewritten /\ o.notice /\ ~o.error
            /\ (~o.fits /\ o.bound /\ ~o.allowed) =>
                   /\ halted
                   /\ o.error
                   /\ o.notice <=> o.rewritten
                   /\ o.rewritten \/ o.untouched
            /\ (~o.fits /\ ~o.bound) => halted /\ o.untouched /\ ~o.notice

\* Witness of C21: three taps with dilation 5 are on the Conv2d hardware,
\* the taps in the centre column, with the Notice and without an Error.
C21_Witness ==
    /\ DilatedConv1d
    /\ net.given[last.ll + 1].kernel_size = <<3, 1>>
    /\ net.given[last.ll + 1].dilation = <<5, 1>>
    /\ Dilated.rewritten
    /\ net.hw[last.ll + 1].kernel = <<<<0, 1, 0>>, <<0, 2, 0>>, <<0, 3, 0>>>>
    /\ Dilated.notice
    /\ ~halted

\* C21 as stated: the kernel is stretched whenever it fits, the layer is
\* rewritten with a Notice and without an Error whenever it does not fit
\* and k is within the bound, and otherwise there is an Error.
C21_ThreeOutcomes ==
    DilatedConv1d =>
        LET o == Dilated
        IN  /\ o.fits => o.stretched /\ ~o.error
            /\ (~o.fits /\ o.bound) => o.rewritten /\ o.notice /\ ~o.error
            /\ (~o.fits /\ ~o.bound) => halted

---------------------------------------------------------------------------
(* The expansion of a layer: a first layer of 4x4 images with channel      *)
(* counts around the multiples of the 64 processors, with and without      *)
(* read-ahead, tcalc left out, off or on; its maps are the lowest          *)
(* processors of one pass.                                                 *)

InitExpand ==
    \E ic \in {1, 2, 63, 64, 65, 127, 128, 129, 193, 250, 256, 1000, 1024},
       oc \in {1, 3, 64, 65, 100, 128, 130, 255, 257, 512, 1023},
       ra \in BOOLEAN, tc \in {None, 0, 1} :
        InitNet(Dev0, Opt0,
                [i \in 1 .. NumLayers |->
                    IF i > 1 THEN Layer0
                    ELSE [Layer0 EXCEPT
                            !.input_chan = ic, !.output_chan = oc,
                            !.rd_ahead = ra, !.tcalc = tc,
                            !.input_dim = <<4, 4>>, !.pooled_dim = <<4, 4>>,
                            !.output_dim = <<4, 4>>,
                            !.processor_map = 0 .. (Expand(ic, Dev0).thresh - 1),
                            !.output_processor_map = 0 .. (Expand(oc, Dev0).thresh - 1)]])

SpecExpand == InitExpand /\ [][NextNet]_vars

\* a / b rounded up, and t rounded up to a multiple of m.
Ceil(a, b) == CHOOSE q \in 0 .. a : q * b >= a /\ (q - 1) * b < a

RoundUp(t, m) == CHOOSE r \in 0 .. (t + m) : r % m = 0 /\ r >= t /\ r - m < t

\* The processors of one pass for chan channels in e passes.
Threshold(chan, e) ==
    LET t == Ceil(chan, e)
        r == RoundUp(t, net.dev.P_SHARED)
    IN  IF chan <= net.dev.MAX_PROC THEN t
        ELSE IF r > net.dev.MAX_PROC THEN net.dev.MAX_PROC ELSE r

\* C22: once a layer's expansion is computed, in_expand and out_expand are
\* the channel counts divided by the processors of the device, rounded
\* up; each threshold is the channel count divided by the expansion,
\* rounded up, and for more channels than processors rounded up to a
\* multiple of the shared group and capped at the processors; and tcalc,
\* when it was left out, is on exactly when the layer has read-ahead and
\* in_expand is above 1, and as given otherwise.
C22_ExpansionAndThresholds ==
    \A i \in DOMAIN net.given :
        net.in_expand[i] # 0 =>
            LET l == net.given[i]
            IN  /\ net.in_expand[i] = Ceil(l.input_chan, net.dev.MAX_PROC)
                /\ net.out_expand[i] = Ceil(l.output_chan, net.dev.MAX_PROC)
                /\ net.in_expand_thresh[i] = Threshold(l.input_chan, net.in_expand[i])
                /\ net.out_expand_thresh[i] = Threshold(l.output_chan, net.out_expand[i])
                /\ l.tcalc = None =>
                       (net.state[i].tcalc = 1 <=> (l.rd_ahead /\ net.in_expand[i] > 1))
                /\ l.tcalc = None => net.state[i].tcalc \in {0, 1}
                /\ l.tcalc # None => net.state[i].tcalc = l.tcalc

\* Witness of C22: 65 input channels with read-ahead take two passes of 36
\* processors and tcalc has come on; 257 output channels take five passes
\* of 52.
C22_Witness ==
    /\ net.given[1].input_chan = 65
    /\ net.given[1].output_chan = 257
    /\ net.given[1].tcalc = None
    /\ net.in_expand[1] = 2
    /\ net.in_expand_thresh[1] = 36
    /\ net.out_expand[1] = 5
    /\ net.out_expand_thresh[1] = 52
    /\ net.state[1].tcalc = 1
    /\ net.pc = "done"

---------------------------------------------------------------------------
(* The configuration pass over the layers, max7800x.py lines 1263-2162:    *)
(* for r in range(repeat_layers), for ll in range(first_layer_used,        *)
(* layers), for group in groups_used.  A layer is given by the values of   *)
(* BufLayers without the rollover, whether it is a FIFO streaming layer,   *)
(* the value and the address of its next-layer register (tc.lreg_addr is   *)
(* not part of src/), and the geometry the rollover is computed from: its  *)
(* pooling, strides, hardware input size and padding as <<rows, columns>>, *)
(* operands, rd_ahead, big_data (CHW input), in_expand, and of the layer   *)
(* before it the pooled width, the column padding and the kernel size.     *)
(* The start layer is layer 0; override_start, the increase_ options and   *)
(* debug_new_streaming are off.                                            *)

Max(a, b) == IF a >= b THEN a ELSE b

\* Lines 1810-1944 and 2043-2076: the prefill stream_start of a FIFO
\* streaming layer and from it the rollover.
Rollover(l, ll, dev, override_rollover) ==
    LET cols == l.hw_input_dim[2]
        pad == l.hw_padding[2]
        row_inc == Max(l.pool[1] * l.pool_dilation[1], l.pool_stride[1])
        col_inc == Max(l.pool[2] * l.pool_dilation[2], l.pool_stride[2])
        legacy_start ==
            IF ll = 0
            THEN ((l.pool[1] - 1) * cols + l.pool[2]) * l.pool[1]
            ELSE (l.prev_pooled_cols + 2 * l.prev_pad)
                     * (l.prev_kernel[1] - 1 + l.pool[1] - 1)
                 + l.prev_kernel[2] - 1 + l.pool[2]
        stream_start_hwc ==
            IF ll = 0
            THEN IF l.pool_stride[1] = 1 /\ l.pool[1] = 1 THEN col_inc
                 ELSE (row_inc - 1) * (cols + 2 * pad) + col_inc
            ELSE pad * (cols + 2 * pad)
                 + (row_inc * (cols + 2 * pad) + pad + 2 * col_inc) * l.operands
                 + (IF l.rd_ahead THEN l.pool_stride[2] ELSE 0)
        legacy ==
            IF l.big_data THEN 12
            ELSE legacy_start + (l.pool[1] - 1) * cols
                 + Max(Max(l.stride[2], l.pool_stride[2]), l.pool[2])
        rem == legacy % l.in_expand
        first == stream_start_hwc + col_inc
        buffer == stream_start_hwc
                  + (l.in_expand - 1) * (row_inc * cols + pad + col_inc)
                  + col_inc
        rounded == buffer + ((l.in_expand - (buffer % l.in_expand)) % l.in_expand)
    IN  IF ll = 0 /\ override_rollover # None THEN override_rollover
        ELSE IF ~dev.REQUIRE_NEW_STREAMING
        THEN IF rem > 0 THEN legacy + l.in_expand - rem ELSE legacy
        ELSE IF ll = 0
        THEN IF l.big_data THEN first * (l.pool_stride[2] * 4) ELSE first
        ELSE IF l.big_data THEN (rounded + 3) \div 4 ELSE rounded

RECURSIVE GroupListDescending(_, _, _)
\* groups_used with the groups appended from the highest down.
GroupListDescending(x, g, dev) ==
    IF g >= dev.P_NUMGROUPS THEN <<>>
    ELSE GroupListDescending(x, g + 1, dev)
         \o (IF \E p \in x : p \div dev.P_NUMPRO = g THEN <<g>> ELSE <<>>)

RECURSIVE GroupList(_, _, _)
\* Lines 787-791: the list groups_used from group g on, x being the bits
\* of processors_used | output_processor_map[final_layer].
GroupList(x, g, dev) ==
    IF g >= dev.P_NUMGROUPS THEN <<>>
    ELSE (IF \E p \in x : p \div dev.P_NUMPRO = g THEN <<g>> ELSE <<>>)
         \o GroupList(x, g + 1, dev)

\* One pass of the loop of line 1324 for layer ll of repetition r in group
\* group: the comment of line 1325 through APB.output (apbaccess.py lines
\* 572-586), the next-layer register, and for a FIFO streaming layer the
\* rollover val of lines 2043-2076 with its assertion, the checks of lines
\* 2079-2159 and the rollover register.
LayerGroup(w, sb, id, ll, group, g, dev, override_rollover) ==
    LET val == Rollover(g, ll, dev, override_rollover)
        l == [val |-> val] @@ g
        mfile == IF cfg.embedded_code /\ cfg.apifile # None THEN cfg.apifile
                 ELSE w.memfile
        w0 == IF w.memfile = None THEN w
              ELSE Emit(w, Ev("Layer group", id, group, mfile))
        w1 == WriteLreg(w0, l.nxt_reg, l.nxtlyr, FALSE)
        w2 == RolloverCheck(w1, ll, l)
        sb1 == [sb EXCEPT ![ll + 1] =
                    <<l.in_offset, l.in_offset + l.val * 4, l.dmap>>]
        w3 == StreamBufCheck(w2, sb1, ll, 0, l.dmap)
        w4 == IF l.chain_end THEN OutputBufCheck(w3, sb1, ll, 0, l) ELSE w3
    IN  IF ~l.streaming THEN [w |-> w1, stream_buf |-> sb]
        ELSE IF val >= Pow2(dev.MAX_FBUF_BITS)
        THEN [w |-> Raise(w1, "AssertionError"), stream_buf |-> sb]
        ELSE IF w2.halted THEN [w |-> w2, stream_buf |-> sb]
        ELSE IF w3.halted \/ w4.halted
        THEN [w |-> IF w3.halted THEN w3 ELSE w4, stream_buf |-> sb1]
        ELSE [w |-> WriteLreg(w4, l.lreg, l.val, FALSE), stream_buf |-> sb1]

\* One pass of the innermost loop, and the step to the next group, layer
\* or repetition.
DoLayerGroup ==
    /\ ~halted
    /\ net.pc = "config"
    /\ LET layers == Len(net.layers)
           groups_used == GroupList(net.x, 0, net.dev)
           group == groups_used[net.g]
           v == LayerGroup(World, stream_buf, net.r * layers + net.ll, net.ll,
                           group, net.layers[net.ll + 1], net.dev,
                           net.override_rollover)
       IN  /\ Commit(v.w)
           /\ stream_buf' = v.stream_buf
           /\ emitted' = emitted \o out'
           /\ last' = [op |-> "layer_group", r |-> net.r, ll |-> net.ll,
                       group |-> group]
           /\ net' = IF v.w.halted THEN [net EXCEPT !.pc = "stopped"]
                     ELSE IF net.g < Len(groups_used)
                     THEN [net EXCEPT !.g = @ + 1]
                     ELSE IF net.ll + 1 < layers
                     THEN [net EXCEPT !.ll = @ + 1, !.g = 1]
                     ELSE IF net.r + 1 < net.repeat_layers
                     THEN [net EXCEPT !.r = @ + 1, !.g = 1,
                                      !.ll = net.first_layer_used]
                     ELSE [net EXCEPT !.pc = "done"]
    /\ UNCHANGED <<unsent, stream>>

\* Layers of the pass.  With a 1x1 input, no pooling and no padding the
\* rollover of l0 is 2 or 4 words, and the buffers of the streaming layers
\* start at 0, 8 and 32; there is a layer that does not stream, and a
\* layer that ends the streaming chain with an output of [0, 40] over its
\* own buffer.
OrderLayers ==
    LET l0 == [in_offset |-> 0, out_offset |-> 1024, out_ignore |-> 0,
               dmap |-> 1, odmap |-> 1, terminating |-> FALSE,
               chain_end |-> FALSE, out_words |-> 2, out_bytes |-> 8,
               instance_bytes |-> 4096, lreg |-> 256, streaming |-> TRUE,
               nxtlyr |-> 0, nxt_reg |-> 128,
               pool |-> <<1, 1>>, pool_stride |-> <<1, 1>>,
               pool_dilation |-> <<1, 1>>, stride |-> <<1, 1>>,
               hw_input_dim |-> <<1, 1>>, hw_padding |-> <<0, 0>>,
               operands |-> 1, rd_ahead |-> FALSE, big_data |-> FALSE,
               in_expand |-> 1, prev_pooled_cols |-> 1, prev_pad |-> 0,
               prev_kernel |-> <<1, 1>>]
    IN  {l0, [l0 EXCEPT !.in_offset = 8], [l0 EXCEPT !.in_offset = 32],
         [l0 EXCEPT !.streaming = FALSE, !.nxtlyr = 256],
         [l0 EXCEPT !.in_offset = 32, !.out_offset = 0, !.chain_end = TRUE,
                    !.out_bytes = 40]}

InitOrder ==
    /\ \E c \in BufCfgs : InitSink(c, 1)
    /\ unsent = <<>>
    /\ stream = <<>>
    /\ emitted = <<>>
    /\ \E ls \in [1 .. NumLayers -> OrderLayers], x \in {{0}, {0, 40}, {5, 20, 63}},
          rep \in {1, 2}, first \in {0, 1}, new \in BOOLEAN :
          /\ net = [pc |-> "config",
                    dev |-> [Dev0 EXCEPT !.REQUIRE_NEW_STREAMING = new],
                    layers |-> ls, x |-> x, override_rollover |-> None,
                    repeat_layers |-> rep, first_layer_used |-> first,
                    r |-> 0, ll |-> first, g |-> 1]
          /\ stream_buf = [i \in 1 .. NumLayers |-> NoBuf]

SpecOrder == InitOrder /\ [][DoLayerGroup]_vars

\* The comments of line 1325 among the effects o, in order.
Marks(o) == SelectSeq(o, LAMBDA e : e.k = "Layer group")

\* C23: the register writes of the layers are emitted under the comment of
\* their layer and group, the layers in ascending order of their id and
\* the groups of one layer in ascending order; and the advisory for an
\* overlapping streaming buffer of layer ll is raised only for the
\* interval of a layer with a smaller id, whatever the intervals recorded
\* for the layers after it.
C23_AscendingOrder ==
    /\ LET m == Marks(emitted)
       IN  /\ \A i, j \in DOMAIN m :
                  i < j => \/ m[i].a < m[j].a
                           \/ (m[i].a = m[j].a /\ m[i].v < m[j].v)
           /\ \A i \in DOMAIN emitted :
                  emitted[i].k = "store" =>
                      \E j \in 1 .. (i - 1) :
                          /\ emitted[j].k = "Layer group"
                          /\ \A k \in (j + 1) .. (i - 1) :
                                 emitted[k].k # "Layer group"
    /\ (net.pc \in {"config", "done", "stopped"} /\ last.op = "layer_group") =>
           \A i \in DOMAIN out :
               out[i].k = "Streaming buffer overlaps" =>
                   /\ out[i].a = last.ll
                   /\ Clashes(stream_buf, last.ll, stream_buf[last.ll + 1][1],
                              stream_buf[last.ll + 1][2],
                              stream_buf[last.ll + 1][3]) # {}

\* Two layers in three groups have been written in a second repetition,
\* and layer 0 has passed the check of its buffer although the buffer
\* recorded for layer 1 overlaps it.
C23_Witness ==
    /\ net.pc = "config"
    /\ last.op = "layer_group"
    /\ last.r = 1 /\ last.ll = 0 /\ last.group = 3
    /\ stream_buf[1] # NoBuf /\ stream_buf[2] # NoBuf
    /\ BitAnd(stream_buf[1][3], stream_buf[2][3]) # 0
    /\ Overlap(stream_buf[1], stream_buf[2])
    /\ \A i \in DOMAIN out : out[i].k # "Streaming buffer overlaps"
    /\ \E i \in DOMAIN out : out[i].k = "store"
    /\ Len(Marks(emitted)) >= 7

---------------------------------------------------------------------------
(* The output handles of create_net.                                       *)

\* Runs with and without header files, an API file and a log, over a
\* network that passes, one whose first layer has one bit too few in its
\* processor map, and one that does not use group 0.
InitFiles ==
    \E em \in BOOLEAN, cw \in BOOLEAN, rf \in {None, 1}, lg \in BOOLEAN,
       api \in {"none", "cnn_api.c"},
       layers \in [1 .. NumLayers ->
                      {Layer0, [Layer0 EXCEPT !.processor_map = {0}],
                       [Layer0 EXCEPT !.processor_map = {16, 17},
                                      !.output_processor_map = {16, 17}]}] :
        InitNet(Dev0, [Opt0 EXCEPT !.embedded_code = em, !.compact_weights = cw,
                                   !.result_filename = rf, !.log = lg,
                                   !.api_filename = api], layers)

SpecFiles == InitFiles /\ [][NextNet]_vars

\* C24 as stated: when create_net has returned, or a fatal diagnostic has
\* ended it, no output handle that it opened is still open.
C24_AllHandlesClosedOnExit ==
    (net.pc = "stopped" \/ (net.pc = "done" /\ net.returned)) => net.files = {}

---------------------------------------------------------------------------
(* The register and kernel writes of the sink, apbaccess.py lines 283-508. *)
(* The addresses come from the device tables, which are not part of src/:  *)
(* Dev0 gives a device with mask memories of 8 and 16 kernels in two       *)
(* instances each.                                                         *)

\* APB.__init__, lines 96-100, with state.compact_weights, state.mexpress
\* and state.verify_kernels off.
KernelMemPresent ==
    ~cfg.embedded_code /\ cfg.rtl_preload

\* Four taps in one word with the last two taps exchanged.
Pack4LastSwapped(a, b, c, d) ==
    BitOr(BitOr(Shl(a % 256, 24), Shl(b % 256, 16)),
          BitOr(Shl(d % 256, 8), c % 256))

\* Lines 489-492: (a & 0xff) << 24 | (b & 0xff) << 16 | (c & 0xff) << 8 |
\* d & 0xff.
Pack4(a, b, c, d) ==
    BitOr(BitOr(Shl(a % 256, 24), Shl(b % 256, 16)),
          BitOr(Shl(c % 256, 8), d % 256))

\* write_fifo_ctl that skips a zero value whatever force_write says.
WriteFifoCtlNoForce(w, dev, reg, val, force_write) ==
    IF val # 0 \/ cfg.write_zero_regs
    THEN TopWrite(w, dev.C_FIFO_BASE + reg * 4, val, FALSE, None, None, TRUE)
    ELSE w

\* APB.write_fifo_ctl, lines 283-303.
WriteFifoCtl(w, dev, reg, val, force_write) ==
    IF force_write \/ val # 0 \/ cfg.write_zero_regs
    THEN TopWrite(w, dev.C_FIFO_BASE + reg * 4, val, FALSE, None, None, TRUE)
    ELSE w

\* APB.write_fast_fifo_ctl, lines 305-325.
WriteFastFifoCtl(w, dev, reg, val, force_write) ==
    IF force_write \/ val # 0 \/ cfg.write_zero_regs
    THEN TopWrite(w, dev.FAST_FIFO_BASE + reg * 4, val, FALSE, None, 0, TRUE)
    ELSE w

\* APB.write_kern, lines 430-508, with start the value of kern_offs[ll].
\* tc.dev.mask_width(p) is taken as MASK_WIDTH_LARGE.  An entry appended to
\* kernel_mem is the effect ("kernel_mem", <<group, processor, instance>>,
\* <<offset, taps>>).
WriteKern(w, dev, ll, p, idx, k, size, verify_only, calc_x4, start, count) ==
    LET small == dev.MASK_WIDTH_SMALL
        large == dev.MASK_WIDTH_LARGE
        per == (count + 3) \div 4
        mem_x4 == (idx - start) \div per
        rem == (idx - start) % per
        idx_x4 == IF ~calc_x4 THEN idx
                  ELSE IF idx < small
                  THEN mem_x4 * (small \div 4) + rem + start \div 4
                  ELSE mem_x4 * ((large - small) \div 4) + rem + small + start \div 4
        addr == dev.C_GROUP_OFFS * (p \div dev.P_NUMPRO) + dev.C_MRAM_BASE
                + (p % dev.P_NUMPRO) * dev.MASK_OFFS * 16 + idx_x4 * 16
        w0 == k[1] % 256
        w1 == IF size # 1 THEN Pack4(k[2], k[3], k[4], k[5]) ELSE 0
        w2 == IF size # 1 THEN Pack4(k[6], k[7], k[8], k[9]) ELSE 0
        inst == IF idx_x4 < small
                THEN idx_x4 \div (small \div dev.MASK_INSTANCES_EACH)
                ELSE (idx_x4 - small)
                         \div ((large - small) \div dev.MASK_INSTANCES_EACH)
                     + dev.MASK_INSTANCES_EACH
        offs == IF idx_x4 < small
                THEN idx_x4 % (small \div dev.MASK_INSTANCES_EACH)
                ELSE (idx_x4 - small)
                         % ((large - small) \div dev.MASK_INSTANCES_EACH)
        taps == IF size # 1 THEN [i \in 1 .. 9 |-> k[i] % 256]
                ELSE [i \in 1 .. 9 |-> IF i = 1 THEN k[1] % 256 ELSE 0]
        x1 == IF verify_only THEN w
              ELSE IF KernelMemPresent
              THEN Emit(w, Ev("kernel_mem",
                              <<p \div dev.P_NUMPRO, p % dev.P_NUMPRO, inst>>,
                              <<offs, taps>>, None))
              ELSE TopWrite(
                       TopWrite(
                           TopWrite(
                               TopWrite(w, addr, w0, TRUE, None, None, TRUE),
                               addr + 4, w1, TRUE, None, None, TRUE),
                           addr + 8, w2, TRUE, None, None, TRUE),
                       addr + 12, 0, TRUE, None, None, TRUE)
        V(x, a, v) == TopVerify(x, a, v, NoMask, 4, 0, 0, FALSE, TRUE, FALSE, FALSE)
    IN  IF p >= dev.MAX_PROC \/ idx >= large
           \/ (calc_x4 /\ idx < small /\ ~(0 <= mem_x4 /\ mem_x4 < 4))
        THEN Raise(w, "AssertionError")
        ELSE IF cfg.verify_writes \/ verify_only
        THEN V(V(V(V(x1, addr, w0), addr + 4, w1), addr + 8, w2), addr + 12, 0)
        ELSE x1

\* Kernels of nine taps and of one tap; the taps that go to the top byte
\* of a word are below 128 after the reduction to 8 bits.
Kernels ==
    {<<1, 2, 3, 4, 5, 6, 7, 8, 9>>,
     <<0 - 1, 383, 0 - 2, 255, 0, 5, 0 - 128, 256, 129>>,
     <<0 - 3>>}

\* A call of write_kern for layer 0, whose kernels start at offset 0 and
\* number 8.
RegsWriteKern ==
    /\ Running
    /\ \E p \in {0, 17, 64}, idx \in {0, 5, 9}, k \in Kernels,
          verify_only \in BOOLEAN, calc_x4 \in BOOLEAN :
           /\ Commit(WriteKern(World, Dev0, 0, p, idx, k, Len(k), verify_only,
                               calc_x4, 0, 8))
           /\ last' = [op |-> "write_kern", p |-> p, idx |-> idx, k |-> k,
                       verify_only |-> verify_only, calc_x4 |-> calc_x4]
    /\ UNCHANGED <<unsent, history, backend>>

\* A call of write_ctl, write_lreg, write_fifo_ctl or write_fast_fifo_ctl.
RegsWriteReg ==
    /\ Running
    /\ \E m \in {"write_ctl", "write_lreg", "write_fifo_ctl",
                 "write_fast_fifo_ctl"},
          val \in {0, 5}, force_write \in BOOLEAN :
           /\ Commit(CASE m = "write_ctl" -> WriteCtl(World, 64, val, force_write)
                       [] m = "write_lreg" -> WriteLreg(World, 256, val, force_write)
                       [] m = "write_fifo_ctl" ->
                              WriteFifoCtl(World, Dev0, 2, val, force_write)
                       [] m = "write_fast_fifo_ctl" ->
                              WriteFastFifoCtl(World, Dev0, 2, val, force_write))
           /\ last' = [op |-> m, val |-> val, force_write |-> force_write]
    /\ UNCHANGED <<unsent, history, backend>>

InitRegs ==
    /\ \E z, v, r \in BOOLEAN, f \in {None, 1} :
           InitSink([DefaultCfg EXCEPT !.write_zero_regs = z,
                                       !.verify_writes = v,
                                       !.rtl_preload = r], f)
    /\ unsent = <<>>
    /\ stream = <<>>
    /\ emitted = <<>>
    /\ stream_buf = <<>>
    /\ net = NoNet

NextRegs == RegsWriteKern \/ RegsWriteReg

SpecRegs == InitRegs /\ [][NextRegs]_vars

\* The words written to registers or memory by the most recent call.
Stores == SelectSeq(out, LAMBDA e : e.k = "store")

\* A kernel of nine taps has gone down the direct-write path.
DirectKernel ==
    /\ last.op = "write_kern"
    /\ Len(last.k) = 9
    /\ ~last.verify_only
    /\ ~KernelMemPresent
    /\ memfile # None
    /\ ~halted

\* C25: write_kern for a kernel of nine taps on the direct-write path
\* writes tap 0, reduced to 8 bits, as the word at the kernel's mask
\* address addr, taps 1 to 4 as the bytes of the word at addr + 4 and taps
\* 5 to 8 as the bytes of the word at addr + 8, the first tap of each group
\* in the most significant byte and every tap reduced to 8 bits; a fourth
\* word of zero at addr + 12 follows.
C25_KernelPacking ==
    DirectKernel =>
        LET s == Stores
            k == last.k
            addr == Dev0.C_GROUP_OFFS * (last.p \div Dev0.P_NUMPRO)
                    + Dev0.C_MRAM_BASE
                    + (last.p % Dev0.P_NUMPRO) * Dev0.MASK_OFFS * 16
        IN  /\ Len(s) = 4
            /\ s[1].v = k[1] % 256
            /\ s[1].a % 16 = cfg.apb_base % 16
            /\ ~last.calc_x4 => s[1].a = addr + last.idx * 16 + cfg.apb_base
            /\ s[2].a = s[1].a + 4 /\ s[3].a = s[1].a + 8
            /\ \A i \in 0 .. 3 :
                   /\ ByteOf(s[2].v, 3 - i) = k[2 + i] % 256
                   /\ ByteOf(s[3].v, 3 - i) = k[6 + i] % 256
            /\ s[4] = [s[1] EXCEPT !.a = @ + 12, !.v = 0]

\* A kernel with negative taps and taps above 255 has been written at
\* index 5 of processor 17.
C25_Witness ==
    /\ DirectKernel
    /\ last.k[1] < 0 /\ last.k[2] > 255 /\ last.k[7] < 0
    /\ last.p = 17 /\ last.idx = 5
    /\ Len(Stores) = 4
    /\ Stores[2].v > 16777216

\* The call was one of the four register writes.
RegisterWrite ==
    last.op \in {"write_ctl", "write_lreg", "write_fifo_ctl", "write_fast_fifo_ctl"}

---------------------------------------------------------------------------
(* The rollover of FIFO streaming layers.                                  *)

\* A start layer, which with a FIFO has at most 16 input channels (line
\* 255) and so one pass, followed by streaming layers of 4 or 7 columns
\* with and without pooling, padding and read-ahead, of one to three
\* passes, in HWC and in CHW format, on a device of either formula family.
\* The advisories of the rollover checks are warnings.
InitRoll ==
    /\ InitSink([DefaultCfg EXCEPT !.no_error_stop = TRUE,
                                   !.overwrite_ok = TRUE], 1)
    /\ unsent = <<>>
    /\ stream = <<>>
    /\ emitted = <<>>
    /\ \E l0 \in {l \in OrderLayers : l.in_offset = 0 /\ l.streaming},
          big0 \in BOOLEAN, p0 \in {1, 2},
          c \in {4, 7}, p \in {1, 2}, ps \in {1, 2}, pad \in {0, 1},
          e \in {1, 2, 3}, big \in BOOLEAN, ra \in BOOLEAN,
          new \in BOOLEAN, ovr \in {None, 5} :
          LET a == [l0 EXCEPT !.big_data = big0, !.pool = <<p0, p0>>,
                              !.hw_input_dim = <<c, c>>]
              b == [l0 EXCEPT !.in_offset = 2048, !.big_data = big,
                              !.pool = <<p, p>>, !.pool_stride = <<ps, ps>>,
                              !.hw_input_dim = <<c, c>>,
                              !.hw_padding = <<pad, pad>>, !.in_expand = e,
                              !.rd_ahead = ra, !.prev_pooled_cols = c,
                              !.prev_kernel = <<3, 3>>, !.prev_pad = 1]
          IN  /\ net = [pc |-> "config",
                        dev |-> [Dev0 EXCEPT !.REQUIRE_NEW_STREAMING = new],
                        layers |-> [i \in 1 .. NumLayers |->
                                        IF i = 1 THEN a ELSE b],
                        x |-> {0}, override_rollover |-> ovr,
                        repeat_layers |-> 1, first_layer_used |-> 0,
                        r |-> 0, ll |-> 0, g |-> 1]
              /\ stream_buf = [i \in 1 .. NumLayers |-> NoBuf]

SpecRoll == InitRoll /\ [][DoLayerGroup]_vars

\* C27 as stated: the rollover written for a FIFO streaming layer whose
\* rollover is not overridden is a multiple of the layer's in_expand.
C27_RolloverMultipleOfPasses ==
    (net.pc \in {"config", "done"} /\ last.op = "layer_group"
     /\ net.layers[last.ll + 1].streaming
     /\ (last.ll # 0 \/ net.override_rollover = None)) =>
        \A i \in DOMAIN Stores :
            Stores[i].a = net.layers[last.ll + 1].lreg + cfg.apb_base =>
                Stores[i].v % net.layers[last.ll + 1].in_expand = 0

---------------------------------------------------------------------------
(* The overwrite tracker and the FIFO target of the byte-packer.           *)

\* The bytes that have left the byte-packer in a step: the head of the
\* queue of unsent bytes, with the byte of a write_byte call at its end,
\* down to what is still unsent afterwards.
Flushed ==
    LET u == IF last'.op = "write_byte"
             THEN Append(unsent, <<last'.offs, BitAnd(last'.val, 255)>>)
             ELSE unsent
    IN  {u[i][1] : i \in 1 .. (Len(u) - Len(unsent'))}

\* C28 as stated: whenever write_byte or write_byte_flush flushes bytes,
\* the word (offset >> 2) of every flushed byte is flagged in the
\* overwrite tracker afterwards, wherever the run started.
C28_EveryFlushedByteFlagged ==
    [][last'.op \in {"write_byte", "write_byte_flush"} =>
           \A o \in Flushed : mem'[Shr(o, 2)]]_vars

\* Bytes written with the FIFO as their target, at any offsets.
FifoWriteByte ==
    /\ \E offs \in Offs, val \in ByteVals : DoWriteByte(offs, val, 0)
    /\ UNCHANGED <<history, backend>>

SpecFifoBytes == InitPack /\ [][FifoWriteByte]_vars

\* C29 as stated: every word that leaves the byte-packer while all bytes
\* are written with a FIFO target goes to the FIFO, the word flushed early
\* at a jump of the offset included, and none is written to an address.
C29_FifoStreamStaysOnFifo ==
    \A i \in DOMAIN out :
        /\ out[i].k = "write_data" => out[i].f # None
        /\ out[i].k \notin {"store", "preload"}

---------------------------------------------------------------------------
(* The simulation loop of create_net, lines 2466-2830.  The outputs of a   *)
(* layer are computed by code that is not part of src/; a pass keeps the   *)
(* loop's control.  An entry of simulated_sequence is <<>> for None and    *)
(* <<s>> for the layer s; next_sequence holds layers and the sentinel -1.  *)

RECURSIVE SequenceCheck(_, _, _)
\* The check of lines 283-286 from layer ll on.
SequenceCheck(w, n, ll) ==
    IF ll >= Len(n.next_sequence) \/ ll >= n.dev.MAX_STREAM_LAYERS THEN w
    ELSE SequenceCheck(
             Check(w, /\ n.next_sequence[ll + 1] # 0 - 1
                      /\ n.next_sequence[ll + 1] # ll + 1
                      /\ n.streaming[ll + 1],
                   "next_sequence must follow the streaming layer", ll),
             n, ll + 1)

\* The validation of the layer chain, then ll = start_layer (line 2466).
DoSequenceCheck ==
    /\ ~halted
    /\ net.pc = "check"
    /\ Commit(SequenceCheck(World, net, 0))
    /\ net' = [net EXCEPT !.pc = IF halted' THEN "stopped" ELSE "simulate",
                          !.ll = net.start_layer]
    /\ last' = [op |-> "sequence_check"]
    /\ UNCHANGED <<unsent, history, stream_buf>>

\* The test of line 2469 and, inside the loop, lines 2823-2830.  A pass
\* through the body of the loop flips net.odd, the parity of the number of
\* layers simulated so far.
DoSimLayer ==
    /\ ~halted
    /\ net.pc = "simulate"
    /\ LET s == net.simulated_sequence
           nxt == net.next_sequence
           ll == net.ll
           pass == [net EXCEPT !.odd = ~net.odd]
       IN  net' = IF ll >= Len(nxt) THEN [net EXCEPT !.pc = "simulated"]
                  ELSE IF s[ll + 1] # <<>>
                  THEN IF s[ll + 1][1] = 0 - 1
                       THEN [pass EXCEPT !.pc = "simulated"]
                       ELSE [pass EXCEPT !.ll = s[ll + 1][1]]
                  ELSE IF nxt[ll + 1] = 0 - 1
                  THEN [pass EXCEPT !.pc = "simulated"]
                  ELSE [pass EXCEPT !.ll = nxt[ll + 1]]
    /\ Commit(World)
    /\ last' = [op |-> "simulate", ll |-> net.ll]
    /\ UNCHANGED <<unsent, history, stream_buf>>

\* Chains of NumLayers layers: every successor from -1 to the layer count,
\* simulated successors unset, -1 or layer 1, and a first layer that
\* streams or not.
InitSim ==
    /\ InitSink(DefaultCfg, 1)
    /\ unsent = <<>>
    /\ stream = <<>>
    /\ emitted = <<>>
    /\ stream_buf = <<>>
    /\ \E nxt \in [1 .. NumLayers -> (0 - 1) .. NumLayers],
          s \in [1 .. NumLayers -> {<<>>, <<0 - 1>>, <<1>>}],
          st \in BOOLEAN :
          net = [pc |-> "check", ll |-> 0, dev |-> Dev0, start_layer |-> 0,
                 odd |-> FALSE,
                 next_sequence |-> nxt, simulated_sequence |-> s,
                 streaming |-> [i \in 1 .. NumLayers |-> st /\ i = 1]]

\* The loop is not left to stutter: a pass that can be taken is taken.
SpecSim ==
    /\ InitSim
    /\ [][DoSequenceCheck \/ DoSimLayer]_vars
    /\ WF_vars(DoSequenceCheck \/ DoSimLayer)

\* C30 as stated: for every chain that passes the validation the
\* simulation loop comes to an end, at a successor of -1 or at an index
\* that is no layer.
C30_SimulationTerminates ==
    <>(net.pc \in {"simulated", "stopped"})

====
